---------------------------- MODULE Spec2Model ----------------------------
(***************************************************************************)
(* Model of the tektoncd-pruner core: the layered policy store and its     *)
(* resolution functions, the annotation-based ResourceLocker, and the      *)
(* HistoryLimiter's ProcessEvent / doResourceCleanup against the resource  *)
(* store.                                                                  *)
(***************************************************************************)
EXTENDS Integers, Sequences, FiniteSets, TLC

VARIABLES
    PrunerConfigStore,  \* [globalConfig, namespacedConfig]: the policy store singleton
    query,              \* the last resolution call's arguments (NoQuery before any call)
    result,             \* the last resolution call's return value
    mutation,           \* the last layer edit: [layer, before] (NoMutation before any edit)
    store,              \* the cluster's resources: name -> [creationTimestamp, status, pipeline, annotations]
    now,                \* the wall clock, in Unix seconds
    ticks,              \* how many times the clock has advanced
    lockers,            \* per ResourceLocker caller: [pc, resource, lockValue, ret]
    acquired,           \* per caller: the lock its TryLock won, [ts, at], NotAcquired otherwise
    workers,            \* per ProcessEvent call in flight: its position and locals
    deleted,            \* per ProcessEvent call: the resources its Delete calls removed
    reload,             \* the LoadGlobalConfig call in flight or last returned
    deletedItems,       \* DeletionTracker.deletedItems: key -> time recorded
    recorder,           \* the Recorder's counters, per resource name
    calls,              \* the calls made on the tracker so far: [op, key, at, ret]
    metrics             \* the global PrunerMetrics: installed or not, and its counters

cfgVars == <<PrunerConfigStore, query, result, mutation, reload>>
lockVars == <<lockers, acquired>>
clockVars == <<now, ticks>>
cleanVars == <<workers, deleted>>
trackVars == <<deletedItems, recorder, calls>>
vars == <<PrunerConfigStore, query, result, mutation, store, now, ticks, lockers, acquired, workers,
          deleted, reload, deletedItems, recorder, calls, metrics>>

(***************************************************************************)
(* Values.  A *int32 is Nil (<<>>) or Ptr(v) (<<v>>).                      *)
(***************************************************************************)
Nil == <<>>
Ptr(v) == <<v>>

PrunerResourceTypePipelineRun == "pipelinerun"
PrunerResourceTypeTaskRun == "taskrun"
PrunerResourceTypes == {PrunerResourceTypePipelineRun, PrunerResourceTypeTaskRun}

PrunerFieldTypeTTLSecondsAfterFinished == "ttlSecondsAfterFinished"
PrunerFieldTypeSuccessfulHistoryLimit == "successfulHistoryLimit"
PrunerFieldTypeFailedHistoryLimit == "failedHistoryLimit"
PrunerFieldTypes ==
    {PrunerFieldTypeTTLSecondsAfterFinished,
     PrunerFieldTypeSuccessfulHistoryLimit,
     PrunerFieldTypeFailedHistoryLimit}

EnforcedConfigLevelGlobal == "global"
EnforcedConfigLevelNamespace == "namespace"
EnforcedConfigLevelResource == "resource"
EnforcedConfigLevels ==
    {EnforcedConfigLevelGlobal, EnforcedConfigLevelNamespace, EnforcedConfigLevelResource}

(***************************************************************************)
(* The policy document's shapes.  A map[string]NamespaceSpec is a function *)
(* whose DOMAIN is the set of keys present.                                *)
(***************************************************************************)
\* Selector: one named override (MatchLabels / MatchAnnotations are carried by
\* the Go struct but never read by resolution).
Selector(name, ttl, succ, failed, level) ==
    [Name |-> name,
     TTLSecondsAfterFinished |-> ttl,
     SuccessfulHistoryLimit |-> succ,
     FailedHistoryLimit |-> failed,
     EnforcedConfigLevel |-> level]

ResourceSpec(selector) == [Selector |-> selector]

NamespaceSpec(level, ttl, succ, failed, hist, pipelineRuns, taskRuns) ==
    [EnforcedConfigLevel |-> level,
     TTLSecondsAfterFinished |-> ttl,
     SuccessfulHistoryLimit |-> succ,
     FailedHistoryLimit |-> failed,
     HistoryLimit |-> hist,
     PipelineRuns |-> pipelineRuns,
     TaskRuns |-> taskRuns]

PrunerConfig(level, ttl, succ, failed, hist, namespaces) ==
    [EnforcedConfigLevel |-> level,
     TTLSecondsAfterFinished |-> ttl,
     SuccessfulHistoryLimit |-> succ,
     FailedHistoryLimit |-> failed,
     HistoryLimit |-> hist,
     Namespaces |-> namespaces]

EmptyMap == [k \in {} |-> Nil]

\* The zero PrunerConfig with LoadGlobalConfig's nil-map replacement applied.
EmptyPrunerConfig == PrunerConfig("", Nil, Nil, Nil, Nil, EmptyMap)

prunerConfigStore(globalConfig, namespacedConfig) ==
    [globalConfig |-> globalConfig, namespacedConfig |-> namespacedConfig]

(***************************************************************************)
(* Field resolution.                                                       *)
(***************************************************************************)
\* The inner switch on fieldType: the field of a Selector, NamespaceSpec or
\* PrunerConfig that fieldType names.
FieldOf(spec, fieldType) ==
    CASE fieldType = PrunerFieldTypeTTLSecondsAfterFinished -> spec.TTLSecondsAfterFinished
      [] fieldType = PrunerFieldTypeSuccessfulHistoryLimit -> spec.SuccessfulHistoryLimit
      [] fieldType = PrunerFieldTypeFailedHistoryLimit -> spec.FailedHistoryLimit
      [] OTHER -> Nil

\* The switch on resourceType that picks the selector list.
ResourceSpecsOf(namespaceSpec, resourceType) ==
    CASE resourceType = PrunerResourceTypePipelineRun -> namespaceSpec.PipelineRuns
      [] resourceType = PrunerResourceTypeTaskRun -> namespaceSpec.TaskRuns
      [] OTHER -> <<>>

\* The loop over resourceSpecs: the first selector with the name returns its
\* field (nil included); a fieldType outside the switch falls through to the
\* next selector.
RECURSIVE ScanResourceSpecs(_, _, _, _)
ScanResourceSpecs(resourceSpecs, i, name, fieldType) ==
    IF i > Len(resourceSpecs) THEN Nil
    ELSE IF resourceSpecs[i].Selector.Name = name /\ fieldType \in PrunerFieldTypes
         THEN FieldOf(resourceSpecs[i].Selector, fieldType)
         ELSE ScanResourceSpecs(resourceSpecs, i + 1, name, fieldType)

\* Mutant: a selector of the name that leaves the field unset is passed over
\* and a later selector of the same name decides.
RECURSIVE ScanResourceSpecsSkipUnset(_, _, _, _)
ScanResourceSpecsSkipUnset(resourceSpecs, i, name, fieldType) ==
    IF i > Len(resourceSpecs) THEN Nil
    ELSE IF resourceSpecs[i].Selector.Name = name
            /\ FieldOf(resourceSpecs[i].Selector, fieldType) # Nil
         THEN FieldOf(resourceSpecs[i].Selector, fieldType)
         ELSE ScanResourceSpecsSkipUnset(resourceSpecs, i + 1, name, fieldType)

getFromPrunerConfigResourceLevelSkipUnset(namespacesSpec, namespace, name, resourceType, fieldType) ==
    IF namespace \notin DOMAIN namespacesSpec THEN Nil
    ELSE ScanResourceSpecsSkipUnset(ResourceSpecsOf(namespacesSpec[namespace], resourceType),
                                    1, name, fieldType)

getFromPrunerConfigResourceLevel(namespacesSpec, namespace, name, resourceType, fieldType) ==
    IF namespace \notin DOMAIN namespacesSpec THEN Nil
    ELSE ScanResourceSpecs(ResourceSpecsOf(namespacesSpec[namespace], resourceType),
                           1, name, fieldType)

\* A namespace-root lookup: the switch assigns ttl only for a known fieldType
\* of a namespace that is found.
NamespaceRootField(namespacesSpec, namespace, fieldType) ==
    IF namespace \in DOMAIN namespacesSpec
    THEN FieldOf(namespacesSpec[namespace], fieldType)
    ELSE Nil

\* The lookups below the namespace's own policy, shared by the mutants.
GlobalLookups(ttl, globalSpec, namespace, name, resourceType, fieldType, withNamespaceRoot) ==
    LET ttl3 == IF ttl = Nil
                THEN getFromPrunerConfigResourceLevel(globalSpec.Namespaces, namespace, name,
                                                      resourceType, fieldType)
                ELSE ttl
        ttl4 == IF ttl3 = Nil /\ withNamespaceRoot
                THEN NamespaceRootField(globalSpec.Namespaces, namespace, fieldType)
                ELSE ttl3
    IN  IF ttl4 = Nil THEN FieldOf(globalSpec, fieldType) ELSE ttl4

\* Mutant: level Namespace is handled like level Resource (the namespace's own
\* selector override is consulted).
getResourceFieldDataNamespaceAsResource(namespacedSpec, globalSpec, namespace, name, resourceType, fieldType, enforcedConfigLevel) ==
    LET own == enforcedConfigLevel \in {EnforcedConfigLevelResource,
                                        EnforcedConfigLevelNamespace}
        ttl1 == IF own
                THEN getFromPrunerConfigResourceLevel(namespacedSpec, namespace, name,
                                                      resourceType, fieldType)
                ELSE Nil
        ttl2 == IF own /\ ttl1 = Nil
                THEN NamespaceRootField(namespacedSpec, namespace, fieldType)
                ELSE ttl1
    IN  IF enforcedConfigLevel \in EnforcedConfigLevels
        THEN GlobalLookups(ttl2, globalSpec, namespace, name, resourceType, fieldType, TRUE)
        ELSE Nil

\* Mutant: the global per-namespace root lookup is left out.
getResourceFieldDataNoGlobalNamespaceRoot(namespacedSpec, globalSpec, namespace, name, resourceType, fieldType, enforcedConfigLevel) ==
    LET ttl1 == IF enforcedConfigLevel = EnforcedConfigLevelResource
                THEN getFromPrunerConfigResourceLevel(namespacedSpec, namespace, name,
                                                      resourceType, fieldType)
                ELSE Nil
        ttl2 == IF enforcedConfigLevel \in {EnforcedConfigLevelResource,
                                            EnforcedConfigLevelNamespace}
                   /\ ttl1 = Nil
                THEN NamespaceRootField(namespacedSpec, namespace, fieldType)
                ELSE ttl1
    IN  IF enforcedConfigLevel \in EnforcedConfigLevels
        THEN GlobalLookups(ttl2, globalSpec, namespace, name, resourceType, fieldType, FALSE)
        ELSE Nil

\* Mutant: the global root wins whenever it is set (the nil check before the
\* last lookup is missing).
getResourceFieldDataGlobalRootWins(namespacedSpec, globalSpec, namespace, name, resourceType, fieldType, enforcedConfigLevel) ==
    LET ttl1 == IF enforcedConfigLevel = EnforcedConfigLevelResource
                THEN getFromPrunerConfigResourceLevel(namespacedSpec, namespace, name,
                                                      resourceType, fieldType)
                ELSE Nil
        ttl2 == IF enforcedConfigLevel \in {EnforcedConfigLevelResource,
                                            EnforcedConfigLevelNamespace}
                   /\ ttl1 = Nil
                THEN NamespaceRootField(namespacedSpec, namespace, fieldType)
                ELSE ttl1
        ttl4 == GlobalLookups(ttl2, globalSpec, namespace, name, resourceType, fieldType, TRUE)
    IN  IF enforcedConfigLevel \in EnforcedConfigLevels
        THEN IF FieldOf(globalSpec, fieldType) # Nil THEN FieldOf(globalSpec, fieldType)
             ELSE ttl4
        ELSE Nil

getResourceFieldData(namespacedSpec, globalSpec, namespace, name, resourceType, fieldType, enforcedConfigLevel) ==
    LET \* case EnforcedConfigLevelResource
        ttl1 == IF enforcedConfigLevel = EnforcedConfigLevelResource
                THEN getFromPrunerConfigResourceLevel(namespacedSpec, namespace, name,
                                                      resourceType, fieldType)
                ELSE Nil
        \* case EnforcedConfigLevelNamespace (reached by fallthrough as well)
        ttl2 == IF enforcedConfigLevel \in {EnforcedConfigLevelResource,
                                            EnforcedConfigLevelNamespace}
                   /\ ttl1 = Nil
                THEN NamespaceRootField(namespacedSpec, namespace, fieldType)
                ELSE ttl1
        \* case EnforcedConfigLevelGlobal (reached by fallthrough as well)
        ttl3 == IF ttl2 = Nil
                THEN getFromPrunerConfigResourceLevel(globalSpec.Namespaces, namespace, name,
                                                      resourceType, fieldType)
                ELSE ttl2
        ttl4 == IF ttl3 = Nil
                THEN NamespaceRootField(globalSpec.Namespaces, namespace, fieldType)
                ELSE ttl3
        ttl5 == IF ttl4 = Nil THEN FieldOf(globalSpec, fieldType) ELSE ttl4
    IN  IF enforcedConfigLevel \in EnforcedConfigLevels THEN ttl5 ELSE Nil

(***************************************************************************)
(* Enforcement-level resolution.                                           *)
(***************************************************************************)
\* The loop over resourceSpecs: only the first selector with the name is
\* looked at (the loop breaks after it); "" when it sets no level.
RECURSIVE ScanEnforcedConfigLevel(_, _, _)
ScanEnforcedConfigLevel(resourceSpecs, i, name) ==
    IF i > Len(resourceSpecs) THEN ""
    ELSE IF resourceSpecs[i].Selector.Name = name
         THEN resourceSpecs[i].Selector.EnforcedConfigLevel
         ELSE ScanEnforcedConfigLevel(resourceSpecs, i + 1, name)

\* The method reads ps.globalConfig.Namespaces; its namespacesSpec argument is
\* never used.
GetEnforcedConfigLevelFromNamespaceSpec(ps, namespacesSpec, namespace, name, resourceType) ==
    IF namespace \in DOMAIN ps.globalConfig.Namespaces
    THEN LET namespaceSpec == ps.globalConfig.Namespaces[namespace]
             fromSelector ==
                 ScanEnforcedConfigLevel(ResourceSpecsOf(namespaceSpec, resourceType), 1, name)
         IN  IF fromSelector # "" THEN fromSelector
             ELSE namespaceSpec.EnforcedConfigLevel
    ELSE ""

\* Mutant: the global root level is consulted before the global per-namespace
\* levels.
getEnforcedConfigLevelRootFirst(ps, namespace, name, resourceType) ==
    LET fromGlobal ==
            GetEnforcedConfigLevelFromNamespaceSpec(ps, ps.globalConfig.Namespaces,
                                                    namespace, name, resourceType)
    IN  IF ps.globalConfig.EnforcedConfigLevel # ""
        THEN ps.globalConfig.EnforcedConfigLevel
        ELSE IF fromGlobal # "" THEN fromGlobal
             ELSE EnforcedConfigLevelResource

getEnforcedConfigLevel(ps, namespace, name, resourceType) ==
    LET fromGlobal ==
            GetEnforcedConfigLevelFromNamespaceSpec(ps, ps.globalConfig.Namespaces,
                                                    namespace, name, resourceType)
        fromNamespaced ==
            GetEnforcedConfigLevelFromNamespaceSpec(ps, ps.namespacedConfig,
                                                    namespace, name, resourceType)
    IN  IF fromGlobal # "" THEN fromGlobal
        ELSE IF ps.globalConfig.EnforcedConfigLevel # ""
             THEN ps.globalConfig.EnforcedConfigLevel
             ELSE IF fromNamespaced # "" THEN fromNamespaced
                  ELSE EnforcedConfigLevelResource


\* The store's getters: the level is resolved first, then the field.
GetPipelineEnforcedConfigLevel(ps, namespace, name) ==
    getEnforcedConfigLevel(ps, namespace, name, PrunerResourceTypePipelineRun)

GetPipelineSuccessHistoryLimitCount(ps, namespace, name) ==
    getResourceFieldData(ps.namespacedConfig, ps.globalConfig, namespace, name,
                         PrunerResourceTypePipelineRun,
                         PrunerFieldTypeSuccessfulHistoryLimit,
                         GetPipelineEnforcedConfigLevel(ps, namespace, name))

\* Mutant: an unset limit is read as zero.
GetPipelineFailedHistoryLimitCountUnsetAsZero(ps, namespace, name) ==
    LET limit ==
        getResourceFieldData(ps.namespacedConfig, ps.globalConfig, namespace, name,
                             PrunerResourceTypePipelineRun,
                             PrunerFieldTypeFailedHistoryLimit,
                             GetPipelineEnforcedConfigLevel(ps, namespace, name))
    IN  IF limit = Nil THEN Ptr(0) ELSE limit

GetPipelineFailedHistoryLimitCount(ps, namespace, name) ==
    getResourceFieldData(ps.namespacedConfig, ps.globalConfig, namespace, name,
                         PrunerResourceTypePipelineRun,
                         PrunerFieldTypeFailedHistoryLimit,
                         GetPipelineEnforcedConfigLevel(ps, namespace, name))

(***************************************************************************)
(* The cluster side of the state: resources with their annotations, the    *)
(* clock, and the callers of the ResourceLocker.                           *)
(***************************************************************************)
PrunerLockAnnotation == "tekton-pruner.io/processing-lock"
AnnotationHistoryLimitCheckProcessed == "AnnotationHistoryLimitCheckProcessed"

\* LockTimeout = 5 * time.Minute, in seconds.
LockTimeout == 300

\* An annotation map is a function from the keys present to strings; a string
\* is a sequence of one-character strings.  The empty map stands for nil too:
\* a resource read from the store without annotations has a nil map.
NoAnnotations == [k \in {} |-> <<>>]

Resource(name, creationTimestamp, status, pipeline, annotations) ==
    [name |-> name, creationTimestamp |-> creationTimestamp, status |-> status,
     pipeline |-> pipeline, annotations |-> annotations]

NoResource == Resource("", 0, "", "", NoAnnotations)
NotAcquired == [ts |-> -1, at |-> -1]

\* The two callers, each a ResourceLocker with an instance ID of its own.
Lockers == {1, 2}
InstanceID(p) == IF p = 1 THEN <<"a">> ELSE <<"b">>

IdleLocker == [pc |-> "idle", resource |-> NoResource, lockValue |-> <<>>, ret |-> "none"]

\* The reconcilers that may run ProcessEvent at the same time.
Workers == {1, 2}

\* A ProcessEvent call: the resource it was handed, the copy markAsProcessed
\* fetched (while markAsProcessed runs), the cleanup it is in ("successful", "failed") and that cleanup's
\* locals (err is what the last List or Delete returned), the error it
\* returned, the cleanups that got to list, and whether the caller has
\* cancelled the context it passed.
IdleWorker ==
    [pc |-> "idle", resource |-> NoResource, resourceLatest |-> NoResource,
     phase |-> "none", historyLimit |-> Nil, completedResources |-> <<>>,
     resourcesToDelete |-> 0, i |-> 0, deletedCount |-> 0, ret |-> "none",
     skipped |-> "", listed |-> {}, err |-> "", cancelled |-> FALSE]

\* GetGlobalMetrics returns nil until InitializeGlobalMetrics has run; the
\* counters of an installed PrunerMetrics start at zero.
MetricNames ==
    {"resourcesSkipped", "resourcesErrors", "resourceDeleteErrors", "resourcesDeleted",
     "historyLimitEvents", "historyProcessingDuration"}

PrunerMetrics(installed) == [installed |-> installed, count |-> [c \in MetricNames |-> 0]]

NoMetrics == PrunerMetrics(FALSE)

\* NewDeletionTracker and a Recorder that has counted nothing.
MeteredNames == {<<"r1">>, <<"processed-", "r1">>}

NoTracker ==
    /\ deletedItems = <<>>
    /\ recorder = [resourcesProcessed |-> [n \in MeteredNames |-> 0],
                   resourcesDeleted |-> [n \in MeteredNames |-> 0]]
    /\ calls = <<>>

\* A LoadGlobalConfig call: where it is ("idle" outside a call, "assigning"
\* between taking the mutex and releasing it), the document it was given, the
\* globalConfig it found and what it returned.
IdleReload ==
    [pc |-> "idle", doc |-> [kind |-> "absent", config |-> EmptyPrunerConfig],
     previous |-> EmptyPrunerConfig, ret |-> "none"]

\* No resource, no caller, the clock at rest: the cluster side when only the
\* policy store is exercised.
NoCluster ==
    /\ reload = IdleReload
    /\ NoTracker
    /\ metrics = NoMetrics
    /\ store = [k \in {} |-> NoResource]
    /\ now = 0
    /\ ticks = 0
    /\ lockers = [p \in Lockers |-> IdleLocker]
    /\ acquired = [p \in Lockers |-> NotAcquired]
    /\ workers = [w \in Workers |-> IdleWorker]
    /\ deleted = [w \in Workers |-> {}]

(***************************************************************************)
(* Policy documents the resolution is exercised on.  Every layer that sets *)
(* a field sets a value of its own (10 * layer + field), so the layer and  *)
(* the field a result came from can be read off the result.                *)
(***************************************************************************)
Layers == <<"nsSel", "nsRoot", "gSel", "gNsRoot", "gRoot">>
LayerNo(layer) == CHOOSE i \in 1..Len(Layers) : Layers[i] = layer

FieldNo(fieldType) ==
    CASE fieldType = PrunerFieldTypeTTLSecondsAfterFinished -> 1
      [] fieldType = PrunerFieldTypeSuccessfulHistoryLimit -> 2
      [] fieldType = PrunerFieldTypeFailedHistoryLimit -> 3

LayerVal(layer, fieldType) == Ptr(10 * LayerNo(layer) + FieldNo(fieldType))

\* Which fields a layer sets: none, all, or the successful limit alone.
FieldPatterns == {{}, PrunerFieldTypes, {PrunerFieldTypeSuccessfulHistoryLimit}}
SelectorPatterns == {{}, PrunerFieldTypes}

ValIf(layer, pattern, fieldType) ==
    IF fieldType \in pattern THEN LayerVal(layer, fieldType) ELSE Nil

LayerSelector(layer, name, pattern, level) ==
    ResourceSpec(Selector(name,
                          ValIf(layer, pattern, PrunerFieldTypeTTLSecondsAfterFinished),
                          ValIf(layer, pattern, PrunerFieldTypeSuccessfulHistoryLimit),
                          ValIf(layer, pattern, PrunerFieldTypeFailedHistoryLimit),
                          level))

\* Entries for other names, kinds and namespaces: a lookup that strays to
\* them returns a value no layer of the queried resource carries.
DecoySelector(name) == ResourceSpec(Selector(name, Ptr(91), Ptr(92), Ptr(93), ""))
DecoyNamespaceSpec ==
    NamespaceSpec("", Ptr(94), Ptr(95), Ptr(96), Nil,
                  <<DecoySelector("p1")>>, <<DecoySelector("p1")>>)

\* The PipelineRuns lists tried for pipeline "p1": none, one selector, one
\* behind a selector of another name, two of the same name.
SelectorLists(layer, selectorPatterns, levels) ==
    {<<>>}
    \cup {<<LayerSelector(layer, "p1", pat, lv)>> : pat \in selectorPatterns, lv \in levels}
    \cup {<<DecoySelector("p2"), LayerSelector(layer, "p1", PrunerFieldTypes, lv)>> :
            lv \in levels}
    \cup {<<LayerSelector(layer, "p1", {}, ""),
            LayerSelector(layer, "p1", PrunerFieldTypes, lv)>> : lv \in levels}

NamespaceSpecs(selLayer, rootLayer, rootPatterns, selectorPatterns, levels) ==
    {NamespaceSpec(lv,
                   ValIf(rootLayer, pat, PrunerFieldTypeTTLSecondsAfterFinished),
                   ValIf(rootLayer, pat, PrunerFieldTypeSuccessfulHistoryLimit),
                   ValIf(rootLayer, pat, PrunerFieldTypeFailedHistoryLimit),
                   Nil, prs, <<DecoySelector("p1")>>) :
        pat \in rootPatterns, lv \in levels, prs \in SelectorLists(selLayer, selectorPatterns, levels)}

\* The maps tried: "ns2" always carries the decoy, "ns1" is absent or present.
NamespaceMaps(selLayer, rootLayer, rootPatterns, selectorPatterns, levels) ==
    {[k \in {"ns2"} |-> DecoyNamespaceSpec]}
    \cup {[k \in {"ns1", "ns2"} |-> IF k = "ns1" THEN s ELSE DecoyNamespaceSpec] :
            s \in NamespaceSpecs(selLayer, rootLayer, rootPatterns, selectorPatterns, levels)}

GlobalConfigs(rootPatterns, selectorPatterns, levels) ==
    {PrunerConfig(lv,
                  ValIf("gRoot", pat, PrunerFieldTypeTTLSecondsAfterFinished),
                  ValIf("gRoot", pat, PrunerFieldTypeSuccessfulHistoryLimit),
                  ValIf("gRoot", pat, PrunerFieldTypeFailedHistoryLimit),
                  Nil, m) :
        pat \in rootPatterns, lv \in levels,
        m \in NamespaceMaps("gSel", "gNsRoot", rootPatterns, selectorPatterns, levels)}

Query(namespace, name, resourceType, fieldType, enforcedConfigLevel) ==
    [namespace |-> namespace, name |-> name, resourceType |-> resourceType,
     fieldType |-> fieldType, enforcedConfigLevel |-> enforcedConfigLevel]

\* The resources asked about: pipeline "p1" in "ns1", and one neighbour of it
\* along each of namespace, name and kind.
Targets ==
    {<<"ns1", "p1", PrunerResourceTypePipelineRun>>,
     <<"ns2", "p1", PrunerResourceTypePipelineRun>>,
     <<"ns1", "p2", PrunerResourceTypePipelineRun>>,
     <<"ns1", "p1", PrunerResourceTypeTaskRun>>}

NoQuery == [namespace |-> "", name |-> "", resourceType |-> "", fieldType |-> "",
            enforcedConfigLevel |-> ""]
NoMutation == [layer |-> "", before |-> Nil]

(***************************************************************************)
(* Field resolution as a state machine: a policy is in place, callers ask. *)
(***************************************************************************)
InitResolve ==
    /\ PrunerConfigStore \in
         {prunerConfigStore(g, n) :
            g \in GlobalConfigs(FieldPatterns, SelectorPatterns, {""}),
            n \in NamespaceMaps("nsSel", "nsRoot", FieldPatterns, SelectorPatterns, {""})}
    /\ query = NoQuery
    /\ result = Nil
    /\ mutation = NoMutation
    /\ NoCluster

\* One call of getResourceFieldData on the store's two configurations (the
\* function is pure: one call per behaviour covers every call).
Resolve(t, fieldType, level) ==
    /\ mutation = NoMutation
    /\ query = NoQuery
    /\ query' = Query(t[1], t[2], t[3], fieldType, level)
    /\ result' = getResourceFieldData(PrunerConfigStore.namespacedConfig,
                                      PrunerConfigStore.globalConfig,
                                      t[1], t[2], t[3], fieldType, level)
    /\ UNCHANGED <<PrunerConfigStore, mutation>>
    /\ UNCHANGED <<store, clockVars, trackVars, metrics, lockVars, cleanVars, reload>>


(***************************************************************************)
(* Editing one layer of the policy for one field of one resource, as a     *)
(* changed document does, and asking the same question again.              *)
(***************************************************************************)
SetField(spec, fieldType, v) ==
    CASE fieldType = PrunerFieldTypeTTLSecondsAfterFinished ->
            [spec EXCEPT !.TTLSecondsAfterFinished = v]
      [] fieldType = PrunerFieldTypeSuccessfulHistoryLimit ->
            [spec EXCEPT !.SuccessfulHistoryLimit = v]
      [] fieldType = PrunerFieldTypeFailedHistoryLimit ->
            [spec EXCEPT !.FailedHistoryLimit = v]

EmptyNamespaceSpec == NamespaceSpec("", Nil, Nil, Nil, Nil, <<>>, <<>>)

WithNamespace(m, namespace, namespaceSpec) ==
    [k \in DOMAIN m \cup {namespace} |-> IF k = namespace THEN namespaceSpec ELSE m[k]]

SetResourceSpecs(namespaceSpec, resourceType, resourceSpecs) ==
    IF resourceType = PrunerResourceTypePipelineRun
    THEN [namespaceSpec EXCEPT !.PipelineRuns = resourceSpecs]
    ELSE [namespaceSpec EXCEPT !.TaskRuns = resourceSpecs]

\* The first selector of the name gets the field; when there is none, one is
\* added (unless the edit removes the field).
EditSelectors(resourceSpecs, name, fieldType, v) ==
    LET M == {i \in 1..Len(resourceSpecs) : resourceSpecs[i].Selector.Name = name}
        first == CHOOSE i \in M : \A j \in M : i <= j
    IN  IF M = {}
        THEN IF v = Nil THEN resourceSpecs
             ELSE Append(resourceSpecs,
                         ResourceSpec(SetField(Selector(name, Nil, Nil, Nil, ""), fieldType, v)))
        ELSE [resourceSpecs EXCEPT ![first] =
                 ResourceSpec(SetField(resourceSpecs[first].Selector, fieldType, v))]

EditNamespaceMap(m, atSelector, q, v) ==
    LET old == IF q.namespace \in DOMAIN m THEN m[q.namespace] ELSE EmptyNamespaceSpec
        new == IF atSelector
               THEN SetResourceSpecs(old, q.resourceType,
                        EditSelectors(ResourceSpecsOf(old, q.resourceType), q.name,
                                      q.fieldType, v))
               ELSE SetField(old, q.fieldType, v)
    IN  IF q.namespace \notin DOMAIN m /\ v = Nil THEN m
        ELSE WithNamespace(m, q.namespace, new)

EditLayer(ps, layer, q, v) ==
    CASE layer = "nsSel" ->
            [ps EXCEPT !.namespacedConfig = EditNamespaceMap(@, TRUE, q, v)]
      [] layer = "nsRoot" ->
            [ps EXCEPT !.namespacedConfig = EditNamespaceMap(@, FALSE, q, v)]
      [] layer = "gSel" ->
            [ps EXCEPT !.globalConfig.Namespaces = EditNamespaceMap(@, TRUE, q, v)]
      [] layer = "gNsRoot" ->
            [ps EXCEPT !.globalConfig.Namespaces = EditNamespaceMap(@, FALSE, q, v)]
      [] layer = "gRoot" ->
            [ps EXCEPT !.globalConfig = SetField(@, q.fieldType, v)]

\* The values an edit writes: the field removed, or a value no layer carried.
EditValues == {Nil, Ptr(77)}

\* A layer is edited for the resource and field last asked about, and the
\* question is asked again of the edited policy.
EditAndResolve(layer, v) ==
    /\ mutation = NoMutation
    /\ query # NoQuery
    /\ <<query.namespace, query.name, query.resourceType>>
         = <<"ns1", "p1", PrunerResourceTypePipelineRun>>
    /\ LET ps == EditLayer(PrunerConfigStore, layer, query, v)
       IN  /\ ps # PrunerConfigStore
           /\ PrunerConfigStore' = ps
           /\ result' = getResourceFieldData(ps.namespacedConfig, ps.globalConfig,
                                             query.namespace, query.name,
                                             query.resourceType, query.fieldType,
                                             query.enforcedConfigLevel)
    /\ mutation' = [layer |-> layer, before |-> result]
    /\ UNCHANGED query
    /\ UNCHANGED <<store, clockVars, trackVars, metrics, lockVars, cleanVars, reload>>

NextResolve ==
    \/ \E t \in Targets, fieldType \in PrunerFieldTypes, level \in EnforcedConfigLevels :
          Resolve(t, fieldType, level)
    \/ \E i \in 1..Len(Layers), v \in EditValues : EditAndResolve(Layers[i], v)

SpecResolve == InitResolve /\ [][NextResolve]_vars

(***************************************************************************)
(* What each layer says about the resource and field asked about, read     *)
(* from the policy document itself.                                        *)
(***************************************************************************)
DocField(spec, fieldType) ==
    IF fieldType = "ttlSecondsAfterFinished" THEN spec.TTLSecondsAfterFinished
    ELSE IF fieldType = "successfulHistoryLimit" THEN spec.SuccessfulHistoryLimit
    ELSE spec.FailedHistoryLimit

DocSelectors(m, q) ==
    IF q.namespace \notin DOMAIN m THEN <<>>
    ELSE IF q.resourceType = "pipelinerun" THEN m[q.namespace].PipelineRuns
    ELSE m[q.namespace].TaskRuns

\* The override of the first selector that carries exactly the name.
DocSelectorOverride(m, q) ==
    LET l == DocSelectors(m, q)
        M == {i \in 1..Len(l) : l[i].Selector.Name = q.name}
    IN  IF M = {} THEN Nil
        ELSE DocField(l[CHOOSE i \in M : \A j \in M : i <= j].Selector, q.fieldType)

DocNamespaceRoot(m, q) ==
    IF q.namespace \in DOMAIN m THEN DocField(m[q.namespace], q.fieldType) ELSE Nil

LayerValue(layer, q) ==
    CASE layer = "nsSel" -> DocSelectorOverride(PrunerConfigStore.namespacedConfig, q)
      [] layer = "nsRoot" -> DocNamespaceRoot(PrunerConfigStore.namespacedConfig, q)
      [] layer = "gSel" -> DocSelectorOverride(PrunerConfigStore.globalConfig.Namespaces, q)
      [] layer = "gNsRoot" -> DocNamespaceRoot(PrunerConfigStore.globalConfig.Namespaces, q)
      [] layer = "gRoot" -> DocField(PrunerConfigStore.globalConfig, q.fieldType)

\* The value of the first layer of the chain that sets the field, else Nil.
RECURSIVE FirstSet(_, _)
FirstSet(chain, q) ==
    IF chain = <<>> THEN Nil
    ELSE IF LayerValue(Head(chain), q) # Nil THEN LayerValue(Head(chain), q)
    ELSE FirstSet(Tail(chain), q)

Asked(level) == query # NoQuery /\ query.enforcedConfigLevel = level


(***************************************************************************)
(* C6 - C8, C10: the precedence chains of field resolution.                *)
(***************************************************************************)
ChainResource == <<"nsSel", "nsRoot", "gSel", "gNsRoot", "gRoot">>
ChainNamespace == <<"nsRoot", "gSel", "gNsRoot", "gRoot">>
ChainGlobal == <<"gSel", "gNsRoot", "gRoot">>

ChainOf(level) ==
    CASE level = EnforcedConfigLevelResource -> ChainResource
      [] level = EnforcedConfigLevelNamespace -> ChainNamespace
      [] level = EnforcedConfigLevelGlobal -> ChainGlobal

\* C6 as stated: under level Resource the result is the value of the first of
\* the namespace's own selector override, the namespace's own root, the global
\* per-namespace selector override and the global root that sets the field,
\* and unset when none of the four sets it.
C6_Original ==
    Asked(EnforcedConfigLevelResource)
        => result = FirstSet(<<"nsSel", "nsRoot", "gSel", "gRoot">>, query)

\* C6 amended: under level Resource the result is the value of the first of
\* five layers that sets the field: the namespace's own selector override (the
\* first selector with the exact name), the namespace's own root, the global
\* per-namespace selector override, the global per-namespace root, the global
\* root; it is unset only if none of the five sets it.
C6_ResourceChain ==
    Asked(EnforcedConfigLevelResource) => result = FirstSet(ChainResource, query)

\* Level Resource, nothing in the namespace's own policy, the global
\* per-namespace selector, per-namespace root and root all set: the selector
\* override is returned.
C6_Witness ==
    /\ Asked(EnforcedConfigLevelResource)
    /\ LayerValue("nsSel", query) = Nil /\ LayerValue("nsRoot", query) = Nil
    /\ LayerValue("gSel", query) # Nil /\ LayerValue("gNsRoot", query) # Nil
    /\ LayerValue("gRoot", query) # Nil
    /\ result = LayerValue("gSel", query)

\* C7 as stated: under level Namespace the result is the namespace's own root
\* field if set and otherwise the global root field, whatever any selector
\* says.
C7_Original ==
    Asked(EnforcedConfigLevelNamespace)
        => result = FirstSet(<<"nsRoot", "gRoot">>, query)

\* C7 amended: under level Namespace the namespace's own selector override is
\* never consulted; the result is the namespace's own root field if set, else
\* the global per-namespace selector override, else the global per-namespace
\* root field, else the global root field.
C7_NamespaceChain ==
    Asked(EnforcedConfigLevelNamespace) => result = FirstSet(ChainNamespace, query)

\* Level Namespace with the namespace's own selector override set and its own
\* root unset: the override is skipped and the global per-namespace selector
\* override is what comes back.
C7_Witness ==
    /\ Asked(EnforcedConfigLevelNamespace)
    /\ LayerValue("nsSel", query) # Nil /\ LayerValue("nsRoot", query) = Nil
    /\ LayerValue("gSel", query) # Nil /\ LayerValue("gRoot", query) # Nil
    /\ result = LayerValue("gSel", query)

\* C8 as stated: under level Global the result is the global per-namespace
\* selector override if set and otherwise the global root field.
C8_Original ==
    Asked(EnforcedConfigLevelGlobal)
        => result = FirstSet(<<"gSel", "gRoot">>, query)

\* C8 amended: under level Global the result is the global per-namespace
\* selector override if set, else the global per-namespace root field, else
\* the global root field; the namespace's own policy (selector or root) never
\* influences the result.
C8_GlobalChain ==
    Asked(EnforcedConfigLevelGlobal) => result = FirstSet(ChainGlobal, query)

\* Level Global with the namespace's own root and selector set, no global
\* selector override, and both the global per-namespace root and the global
\* root set: the global per-namespace root is returned.
C8_Witness ==
    /\ Asked(EnforcedConfigLevelGlobal)
    /\ LayerValue("nsSel", query) # Nil /\ LayerValue("nsRoot", query) # Nil
    /\ LayerValue("gSel", query) = Nil
    /\ LayerValue("gNsRoot", query) # Nil /\ LayerValue("gRoot", query) # Nil
    /\ result = LayerValue("gNsRoot", query)

Position(chain, layer) == CHOOSE i \in 1..Len(chain) : chain[i] = layer
InChain(chain, layer) == \E i \in 1..Len(chain) : chain[i] = layer

\* An earlier layer of the active chain than the edited one sets the field.
HigherLayerSets ==
    LET chain == ChainOf(query.enforcedConfigLevel)
    IN  /\ InChain(chain, mutation.layer)
        /\ \E i \in 1..(Position(chain, mutation.layer) - 1) :
              LayerValue(chain[i], query) # Nil

\* C10: when an earlier layer of the active precedence chain sets the field,
\* setting, changing or removing the field at a later layer leaves the
\* resolved value as it was.
C10_LowerLayerEditIsNoOp ==
    mutation # NoMutation /\ HigherLayerSets => result = mutation.before

\* The global root is edited while the namespace's own root decides under
\* level Namespace, and the result stays.
C10_Witness ==
    /\ mutation # NoMutation /\ mutation.layer = "gRoot"
    /\ query.enforcedConfigLevel = EnforcedConfigLevelNamespace
    /\ LayerValue("nsRoot", query) # Nil
    /\ LayerValue("gRoot", query) = Ptr(77)
    /\ result = mutation.before


(***************************************************************************)
(* Enforcement-level resolution as a state machine: the layers carry       *)
(* levels, a caller asks for the level of a resource.                      *)
(***************************************************************************)
LevelValues == {""} \cup EnforcedConfigLevels

InitLevel ==
    /\ PrunerConfigStore \in
         {prunerConfigStore(g, n) :
            g \in GlobalConfigs({PrunerFieldTypes}, {PrunerFieldTypes}, LevelValues),
            n \in NamespaceMaps("nsSel", "nsRoot", {PrunerFieldTypes}, {PrunerFieldTypes},
                                LevelValues)}
    /\ query = NoQuery
    /\ result = Nil
    /\ mutation = NoMutation
    /\ NoCluster

\* One call of getEnforcedConfigLevel on the store.
ResolveLevel(t) ==
    /\ query = NoQuery
    /\ query' = Query(t[1], t[2], t[3], "enforcedConfigLevel", "")
    /\ result' = getEnforcedConfigLevel(PrunerConfigStore, t[1], t[2], t[3])
    /\ UNCHANGED <<PrunerConfigStore, mutation>>
    /\ UNCHANGED <<store, clockVars, trackVars, metrics, lockVars, cleanVars, reload>>

NextLevel == \E t \in Targets : ResolveLevel(t)

SpecLevel == InitLevel /\ [][NextLevel]_vars

\* The level each layer sets for the resource asked about ("" when unset),
\* read from the policy document.
DocSelectorLevel(m, q) ==
    LET l == DocSelectors(m, q)
        M == {i \in 1..Len(l) : l[i].Selector.Name = q.name}
    IN  IF M = {} THEN ""
        ELSE l[CHOOSE i \in M : \A j \in M : i <= j].Selector.EnforcedConfigLevel

DocNamespaceLevel(m, q) ==
    IF q.namespace \in DOMAIN m THEN m[q.namespace].EnforcedConfigLevel ELSE ""

LayerLevel(layer, q) ==
    CASE layer = "nsSel" -> DocSelectorLevel(PrunerConfigStore.namespacedConfig, q)
      [] layer = "nsRoot" -> DocNamespaceLevel(PrunerConfigStore.namespacedConfig, q)
      [] layer = "gSel" -> DocSelectorLevel(PrunerConfigStore.globalConfig.Namespaces, q)
      [] layer = "gNsRoot" -> DocNamespaceLevel(PrunerConfigStore.globalConfig.Namespaces, q)
      [] layer = "gRoot" -> PrunerConfigStore.globalConfig.EnforcedConfigLevel

\* The level of the first layer of the chain that sets one, else Resource.
RECURSIVE FirstLevel(_, _)
FirstLevel(chain, q) ==
    IF chain = <<>> THEN EnforcedConfigLevelResource
    ELSE IF LayerLevel(Head(chain), q) # "" THEN LayerLevel(Head(chain), q)
    ELSE FirstLevel(Tail(chain), q)

AskedLevel == query # NoQuery /\ query.fieldType = "enforcedConfigLevel"

DigitChars == <<"0", "1", "2", "3", "4", "5", "6", "7", "8", "9">>
IsDigit(c) == \E i \in 1..Len(DigitChars) : DigitChars[i] = c
DigitValue(c) == (CHOOSE i \in 1..Len(DigitChars) : DigitChars[i] = c) - 1

\* fmt.Sprintf("%d", n)
RECURSIVE FormatInt(_)
FormatInt(n) ==
    IF n < 0 THEN <<"-">> \o FormatInt(-n)
    ELSE IF n < 10 THEN <<DigitChars[n + 1]>>
    ELSE FormatInt(n \div 10) \o <<DigitChars[(n % 10) + 1]>>

RECURSIVE ScanDigits(_, _, _)
ScanDigits(str, i, acc) ==
    IF i > Len(str) \/ ~IsDigit(str[i]) THEN [n |-> acc, next |-> i]
    ELSE ScanDigits(str, i + 1, acc * 10 + DigitValue(str[i]))

\* fmt.Sscanf(str, "%d", &timestamp): an optional sign and the longest run of
\* digits that follows; what comes after the digits is left unread; an error
\* when there is no digit.
SscanfInt(str) ==
    LET signed == Len(str) > 0 /\ str[1] \in {"+", "-"}
        start == IF signed THEN 2 ELSE 1
        d == ScanDigits(str, start, 0)
    IN  IF d.next = start THEN [ok |-> FALSE, value |-> 0]
        ELSE [ok |-> TRUE, value |-> IF signed /\ str[1] = "-" THEN -d.n ELSE d.n]

\* fmt.Sprintf("%s:%d", rl.instanceID, time.Now().Unix())
LockValue(instanceID, t) == instanceID \o <<":">> \o FormatInt(t)

\* Splits at the first ':' (instance IDs are ASCII here, so the rune index the
\* loop counts is the byte index the slices use).
parseLocationValue(lockValue) ==
    LET colons == {i \in 1..Len(lockValue) : lockValue[i] = ":"}
        first == CHOOSE i \in colons : \A j \in colons : i <= j
    IN  IF colons = {} THEN <<lockValue>>
        ELSE <<SubSeq(lockValue, 1, first - 1), SubSeq(lockValue, first + 1, Len(lockValue))>>

\* Mutant: a lock never expires.
isLockValidNoTimeout(lockValue) ==
    LET parts == parseLocationValue(lockValue)
    IN  Len(parts) = 2 /\ SscanfInt(parts[2]).ok

\* time.Since(lockTime) < LockTimeout, the clock read in whole seconds.
isLockValid(lockValue) ==
    LET parts == parseLocationValue(lockValue)
    IN  IF Len(parts) # 2 THEN FALSE
        ELSE IF ~SscanfInt(parts[2]).ok THEN FALSE
        ELSE now - SscanfInt(parts[2]).value < LockTimeout

isOwnedByMe(instanceID, lockValue) ==
    LET parts == parseLocationValue(lockValue)
    IN  IF Len(parts) # 2 THEN FALSE ELSE parts[1] = instanceID

(***************************************************************************)
(* The store operations the locker uses.                                   *)
(***************************************************************************)
\* JSON merge patch {"metadata":{"annotations":{key: value}}}
SetAnnotation(annotations, key, value) ==
    [k \in DOMAIN annotations \cup {key} |-> IF k = key THEN value ELSE annotations[k]]

\* JSON merge patch {"metadata":{"annotations":{key: null}}}
RemoveAnnotation(annotations, key) ==
    [k \in DOMAIN annotations \ {key} |-> annotations[k]]

PatchAnnotation(st, name, key, value) ==
    [st EXCEPT ![name].annotations = SetAnnotation(@, key, value)]

PatchAnnotationNull(st, name, key) ==
    [st EXCEPT ![name].annotations = RemoveAnnotation(@, key)]

\* The resource the lockers compete for.
LockTarget == "r1"

(***************************************************************************)
(* ResourceLocker: a caller gets the resource, calls TryLock on it and may *)
(* then call ReleaseLock on the same object.  Every store call is a step.  *)
(***************************************************************************)
\* The caller obtains the resource object it will pass to TryLock.
GetResource(p) ==
    /\ lockers[p].pc = "idle"
    /\ LockTarget \in DOMAIN store
    /\ lockers' = [lockers EXCEPT ![p].pc = "ready", ![p].resource = store[LockTarget]]
    /\ UNCHANGED <<store, clockVars, trackVars, metrics, acquired, cfgVars, cleanVars>>

\* TryLock's first check: the passed resource carries a valid lock of
\* another instance.
LockedByAnother(p) ==
    LET annotations == lockers[p].resource.annotations
    IN  /\ PrunerLockAnnotation \in DOMAIN annotations
        /\ isLockValid(annotations[PrunerLockAnnotation])
        /\ ~isOwnedByMe(InstanceID(p), annotations[PrunerLockAnnotation])

TryLockRefused(p) ==
    /\ lockers[p].pc = "ready"
    /\ LockedByAnother(p)
    /\ lockers' = [lockers EXCEPT ![p].pc = "returned", ![p].ret = "false"]
    /\ UNCHANGED <<store, clockVars, trackVars, metrics, acquired, cfgVars, cleanVars>>

\* annotations[PrunerLockAnnotation] = lockValue: the write reaches the
\* caller's resource only when its annotation map was not nil.
WithLocalLock(resource, lockValue) ==
    IF DOMAIN resource.annotations = {} THEN resource
    ELSE [resource EXCEPT !.annotations = SetAnnotation(@, PrunerLockAnnotation, lockValue)]

\* The lock value is built and patched onto the stored resource.
TryLockPatch(p) ==
    /\ lockers[p].pc = "ready"
    /\ ~LockedByAnother(p)
    /\ LockTarget \in DOMAIN store
    /\ LET lockValue == LockValue(InstanceID(p), now)
       IN  /\ store' = PatchAnnotation(store, LockTarget, PrunerLockAnnotation, lockValue)
           /\ lockers' = [lockers EXCEPT
                             ![p].pc = "patched",
                             ![p].lockValue = lockValue,
                             ![p].resource = WithLocalLock(@, lockValue)]
    /\ acquired' = [acquired EXCEPT ![p] = [ts |-> now, at |-> -1]]
    /\ UNCHANGED <<clockVars, trackVars, metrics, cfgVars, cleanVars>>

\* The patch returns an error: TryLock returns (false, err).
TryLockPatchFails(p) ==
    /\ lockers[p].pc = "ready"
    /\ ~LockedByAnother(p)
    /\ LET lockValue == LockValue(InstanceID(p), now)
       IN  lockers' = [lockers EXCEPT
                          ![p].pc = "returned",
                          ![p].ret = "error",
                          ![p].lockValue = lockValue,
                          ![p].resource = WithLocalLock(@, lockValue)]
    /\ UNCHANGED <<store, clockVars, trackVars, metrics, acquired, cfgVars, cleanVars>>

\* The re-read: true when the stored annotation is the value just written.
TryLockVerify(p) ==
    /\ lockers[p].pc = "patched"
    /\ LockTarget \in DOMAIN store
    /\ LET updatedAnnotations == store[LockTarget].annotations
           won == /\ PrunerLockAnnotation \in DOMAIN updatedAnnotations
                  /\ updatedAnnotations[PrunerLockAnnotation] = lockers[p].lockValue
       IN  /\ lockers' = [lockers EXCEPT ![p].pc = "returned",
                                         ![p].ret = IF won THEN "true" ELSE "false"]
           /\ acquired' = [acquired EXCEPT ![p] = IF won THEN [@ EXCEPT !.at = now]
                                                  ELSE NotAcquired]
    /\ UNCHANGED <<store, clockVars, trackVars, metrics, cfgVars, cleanVars>>

\* The re-read returns an error: TryLock returns (false, err).
TryLockVerifyFails(p) ==
    /\ lockers[p].pc = "patched"
    /\ lockers' = [lockers EXCEPT ![p].pc = "returned", ![p].ret = "error"]
    /\ acquired' = [acquired EXCEPT ![p] = NotAcquired]
    /\ UNCHANGED <<store, clockVars, trackVars, metrics, cfgVars, cleanVars>>

\* ReleaseLock looks at the passed resource's annotations and patches the
\* lock away when they show a lock of its own instance.
ReleaseWouldPatch(p) ==
    LET annotations == lockers[p].resource.annotations
    IN  /\ PrunerLockAnnotation \in DOMAIN annotations
        /\ isOwnedByMe(InstanceID(p), annotations[PrunerLockAnnotation])

ReleaseLock(p) ==
    /\ lockers[p].pc = "returned"
    /\ LockTarget \in DOMAIN store
    /\ store' = IF ReleaseWouldPatch(p)
                THEN PatchAnnotationNull(store, LockTarget, PrunerLockAnnotation)
                ELSE store
    /\ lockers' = [lockers EXCEPT ![p].pc = "released"]
    /\ acquired' = [acquired EXCEPT ![p] = NotAcquired]
    /\ UNCHANGED <<clockVars, trackVars, metrics, cfgVars, cleanVars>>

\* The release patch returns an error, which ReleaseLock returns.
ReleaseLockPatchFails(p) ==
    /\ lockers[p].pc = "returned"
    /\ ReleaseWouldPatch(p)
    /\ lockers' = [lockers EXCEPT ![p].pc = "released", ![p].ret = "error"]
    /\ acquired' = [acquired EXCEPT ![p] = NotAcquired]
    /\ UNCHANGED <<store, clockVars, trackVars, metrics, cfgVars, cleanVars>>

\* How far the clock is let run: MaxTicks advances, each by a second or by a
\* second less than the lock timeout.
MaxTicks == 3
TickSteps == {1, LockTimeout - 1}

Tick(d) ==
    /\ ticks < MaxTicks
    /\ now' = now + d
    /\ ticks' = ticks + 1
    /\ UNCHANGED <<store, lockVars, cfgVars, cleanVars, trackVars, metrics>>

\* One completed resource, with or without an annotation of its own, no lock
\* on it, two lockers about to work on it.
InitLock ==
    /\ reload = IdleReload
    /\ NoTracker
    /\ metrics = NoMetrics
    /\ PrunerConfigStore = prunerConfigStore(EmptyPrunerConfig, EmptyMap)
    /\ query = NoQuery /\ result = Nil /\ mutation = NoMutation
    /\ \E annotations \in {NoAnnotations,
                           SetAnnotation(NoAnnotations, AnnotationHistoryLimitCheckProcessed,
                                         FormatInt(0))} :
          store = [k \in {LockTarget} |->
                     Resource(LockTarget, 0, "Succeeded", "p1", annotations)]
    /\ now = 0
    /\ ticks = 0
    /\ lockers = [p \in Lockers |-> IdleLocker]
    /\ acquired = [p \in Lockers |-> NotAcquired]
    /\ workers = [w \in Workers |-> IdleWorker]
    /\ deleted = [w \in Workers |-> {}]

NextLock ==
    \/ \E p \in Lockers : GetResource(p)
    \/ \E p \in Lockers : TryLockRefused(p)
    \/ \E p \in Lockers : TryLockPatch(p)
    \/ \E p \in Lockers : TryLockPatchFails(p)
    \/ \E p \in Lockers : TryLockVerify(p)
    \/ \E p \in Lockers : TryLockVerifyFails(p)
    \/ \E p \in Lockers : ReleaseLock(p)
    \/ \E p \in Lockers : ReleaseLockPatchFails(p)
    \/ \E d \in TickSteps : Tick(d)

SpecLock == InitLock /\ [][NextLock]_vars

(***************************************************************************)
(* C1: mutual exclusion of TryLock.                                        *)
(***************************************************************************)
Holds(p) == acquired[p].at >= 0

\* C1: two TryLock calls by lockers with different instance IDs never both
\* return true on the same resource, unless the first winner called
\* ReleaseLock or its lock timed out before the second call returned true.
C1_MutualExclusion ==
    \A p \in Lockers, q \in Lockers :
        p # q /\ Holds(p) /\ Holds(q) /\ acquired[p].at <= acquired[q].at
            => acquired[q].at - acquired[p].ts >= LockTimeout


(***************************************************************************)
(* HistoryLimiter.  The resource functions it is built on (status tests,   *)
(* grouping label, limit getters of the pipeline-run kind) come first.     *)
(***************************************************************************)
EventNamespace == "ns1"

IsSuccessful(resource) == resource.status = "Succeeded"
IsFailed(resource) == resource.status = "Failed"
IsCompleted(resource) == IsSuccessful(resource) \/ IsFailed(resource)

\* The grouping a run belongs to: the value of its pipeline-name label.
getResourceName(resource) == resource.pipeline

GetSuccessHistoryLimitCount(namespace, name) ==
    GetPipelineSuccessHistoryLimitCount(PrunerConfigStore, namespace, name)

GetFailedHistoryLimitCount(namespace, name) ==
    GetPipelineFailedHistoryLimitCount(PrunerConfigStore, namespace, name)

Pad2(n) == <<DigitChars[(n \div 10) + 1], DigitChars[(n % 10) + 1]>>

\* time.Now().Format(time.RFC3339), the clock being UTC and within the first
\* day of the epoch.
FormatRFC3339(t) ==
    <<"1", "9", "7", "0", "-", "0", "1", "-", "0", "1", "T">>
        \o Pad2(t \div 3600) \o <<":">> \o Pad2((t % 3600) \div 60) \o <<":">>
        \o Pad2(t % 60) \o <<"Z">>

\* Mutant: the marker is never looked at.
isProcessedNever(resource) == FALSE

isProcessed(resource) == AnnotationHistoryLimitCheckProcessed \in DOMAIN resource.annotations

\* A JSON merge patch of metadata.annotations: the patch's keys are set, the
\* others stay.
MergeAnnotations(current, patch) ==
    [k \in DOMAIN current \cup DOMAIN patch |-> IF k \in DOMAIN patch THEN patch[k] ELSE current[k]]

\* resourceFn.List with the grouping's label selector, then the filter on
\* completion and status.
isSuccessfulResource(resource) == IsSuccessful(resource)
isFailedResource(resource) == IsFailed(resource)

\* Mutant: the listed resources are not filtered by status.
PassesFilterAny(phase, resource) == TRUE

PassesFilter(phase, resource) ==
    IF phase = "successful" THEN isSuccessfulResource(resource) ELSE isFailedResource(resource)

CompletedResources(st, resourceName, phase) ==
    {st[k] : k \in {n \in DOMAIN st : /\ getResourceName(st[n]) = resourceName
                                       /\ IsCompleted(st[n])
                                       /\ PassesFilter(phase, st[n])}}

IsArrangement(order, resources) ==
    /\ Len(order) = Cardinality(resources)
    /\ {order[i] : i \in 1..Len(order)} = resources

\* What sort.Slice guarantees with the less function Before on creation
\* timestamps: no element precedes one created before it.  Resources created
\* at the same time come out in any order (the sort is not stable and the
\* listing order is not fixed).
SortedByCreationTimestamp(order) ==
    \A i \in 1..Len(order), j \in 1..Len(order) :
        i < j => ~(order[j].creationTimestamp < order[i].creationTimestamp)

\* Mutant: one resource too many is deleted.
ResourcesToDeleteOneMore(completedResources, historyLimit) ==
    Len(completedResources) - historyLimit[1] + 1

\* len(completedResources) - int(*historyLimit)
ResourcesToDelete(completedResources, historyLimit) ==
    Len(completedResources) - historyLimit[1]

\* Mutant: a count equal to the limit is not within it.
WithinLimitStrict(count, historyLimit) == count < historyLimit[1]

\* len(completedResources) <= int(*historyLimit)
WithinLimit(count, historyLimit) == count <= historyLimit[1]

\* ProcessEvent goes from the successful cleanup to the failed one and then
\* returns nil.
NextPhase(worker) ==
    IF worker.phase = "successful" THEN [worker EXCEPT !.phase = "failed", !.pc = "cleanup"]
    ELSE [worker EXCEPT !.phase = "end", !.pc = "done", !.ret = "nil"]

ReturnError(worker) == [worker EXCEPT !.pc = "done", !.ret = "error", !.err = "Internal"]

\* Mutant: the recorder is used without the nil check, so a call on a
\* missing recorder never returns.
RecordUnguarded(counters) ==
    /\ metrics.installed
    /\ metrics' = [metrics EXCEPT !.count =
                      [c \in MetricNames |->
                          @[c] + Cardinality({i \in 1..Len(counters) : counters[i] = c})]]

\* if metrics != nil { metrics.Record...(...) } for each of the counters.
Record(counters) ==
    metrics' = IF metrics.installed
               THEN [metrics EXCEPT !.count =
                        [c \in MetricNames |->
                            @[c] + Cardinality({i \in 1..Len(counters) : counters[i] = c})]]
               ELSE metrics

\* The deferred RecordHistoryProcessingDuration, when ProcessEvent returns.
OnReturn(worker) == IF worker.pc = "done" THEN <<"historyProcessingDuration">> ELSE <<>>

(***************************************************************************)
(* HistoryLimiter.ProcessEvent, one step per call on the resource store.   *)
(***************************************************************************)
\* The entry checks: an already processed or not completed resource is
\* skipped, any other goes on to markAsProcessed.
ProcessEvent(w, name) ==
    /\ workers[w].pc = "idle"
    /\ name \in DOMAIN store
    /\ LET resource == store[name]
           skipped == IF isProcessed(resource) THEN "already_processed"
                      ELSE IF ~IsCompleted(resource) THEN "not_completed"
                      ELSE ""
       IN  /\ workers' = [workers EXCEPT ![w] =
                          IF skipped # ""
                          THEN [@ EXCEPT !.resource = resource, !.skipped = skipped,
                                         !.pc = "done", !.ret = "nil"]
                          ELSE [@ EXCEPT !.resource = resource, !.pc = "markGet"]]
           /\ Record(IF skipped # "" THEN <<"resourcesSkipped", "historyProcessingDuration">>
                     ELSE <<>>)
    /\ UNCHANGED <<store, deleted, clockVars, trackVars, lockVars, cfgVars>>

\* markAsProcessed fetches the latest version; when the resource is gone it
\* returns and ProcessEvent goes on to the cleanups.
markAsProcessedGet(w) ==
    /\ workers[w].pc = "markGet"
    /\ workers' = [workers EXCEPT ![w] =
                      IF workers[w].resource.name \in DOMAIN store
                      THEN [@ EXCEPT !.resourceLatest = store[workers[w].resource.name],
                                     !.pc = "markPatch"]
                      ELSE [@ EXCEPT !.phase = "successful", !.pc = "cleanup"]]
    /\ UNCHANGED <<store, deleted, clockVars, trackVars, metrics, lockVars, cfgVars>>

\* The fetch fails: the error is logged, nothing is patched.
markAsProcessedGetFails(w) ==
    /\ workers[w].pc = "markGet"
    /\ workers' = [workers EXCEPT ![w] = [@ EXCEPT !.phase = "successful", !.pc = "cleanup"]]
    /\ UNCHANGED <<store, deleted, clockVars, trackVars, metrics, lockVars, cfgVars>>

\* The patch carries every annotation of the fetched copy plus the marker.
markAsProcessedPatch(w) ==
    /\ workers[w].pc = "markPatch"
    /\ LET resourceLatest == workers[w].resourceLatest
           annotations == SetAnnotation(resourceLatest.annotations,
                                        AnnotationHistoryLimitCheckProcessed, FormatRFC3339(now))
       IN  store' = IF resourceLatest.name \in DOMAIN store
                    THEN [store EXCEPT ![resourceLatest.name].annotations =
                                           MergeAnnotations(@, annotations)]
                    ELSE store
    /\ workers' = [workers EXCEPT ![w] = [@ EXCEPT !.resourceLatest = NoResource,
                                                   !.phase = "successful", !.pc = "cleanup"]]
    /\ UNCHANGED <<deleted, clockVars, trackVars, metrics, lockVars, cfgVars>>

\* Mutant: a failed marker patch makes ProcessEvent return the error.
markAsProcessedPatchFailsAborts(w) ==
    /\ workers[w].pc = "markPatch"
    /\ workers' = [workers EXCEPT ![w] = ReturnError([@ EXCEPT !.resourceLatest = NoResource])]
    /\ UNCHANGED <<store, deleted, clockVars, trackVars, metrics, lockVars, cfgVars>>

\* The patch fails: the error is logged.
markAsProcessedPatchFails(w) ==
    /\ workers[w].pc = "markPatch"
    /\ workers' = [workers EXCEPT ![w] = [@ EXCEPT !.resourceLatest = NoResource,
                                                   !.phase = "successful", !.pc = "cleanup"]]
    /\ UNCHANGED <<store, deleted, clockVars, trackVars, metrics, lockVars, cfgVars>>

\* The cleanup of the current phase starts when the event's resource has the
\* phase's status; it returns at once when no limit is configured.
doResourceCleanupLimit(w) ==
    /\ workers[w].pc = "cleanup"
    /\ LET worker == workers[w]
           resourceName == getResourceName(worker.resource)
           historyLimit == IF worker.phase = "successful"
                           THEN GetSuccessHistoryLimitCount(EventNamespace, resourceName)
                           ELSE GetFailedHistoryLimitCount(EventNamespace, resourceName)
       IN  /\ workers' = [workers EXCEPT ![w] =
                             IF ~PassesFilter(worker.phase, worker.resource) THEN NextPhase(worker)
                             ELSE IF historyLimit = Nil THEN NextPhase(worker)
                             ELSE [worker EXCEPT !.historyLimit = historyLimit, !.pc = "list"]]
           /\ Record(IF ~PassesFilter(worker.phase, worker.resource)
                     THEN OnReturn(NextPhase(worker))
                     ELSE IF historyLimit = Nil
                     THEN <<"resourcesSkipped", "historyLimitEvents">> \o OnReturn(NextPhase(worker))
                     ELSE <<>>)
    /\ UNCHANGED <<store, deleted, clockVars, trackVars, lockVars, cfgVars>>

\* List, filter, compare with the limit, sort, count what to delete.
doResourceCleanupList(w) ==
    /\ workers[w].pc = "list"
    /\ LET worker == workers[w]
           resources == CompletedResources(store, getResourceName(worker.resource), worker.phase)
       IN  IF WithinLimit(Cardinality(resources), worker.historyLimit)
           THEN /\ workers' = [workers EXCEPT ![w] =
                                  NextPhase([worker EXCEPT !.listed = @ \cup {worker.phase}])]
                /\ Record(<<"resourcesSkipped", "historyLimitEvents">> \o OnReturn(NextPhase(worker)))
           ELSE \E completedResources \in [1..Cardinality(resources) -> resources] :
                   /\ IsArrangement(completedResources, resources)
                   /\ SortedByCreationTimestamp(completedResources)
                   /\ workers' = [workers EXCEPT ![w] =
                         [worker EXCEPT
                            !.listed = @ \cup {worker.phase},
                            !.completedResources = completedResources,
                            !.resourcesToDelete =
                                ResourcesToDelete(completedResources, worker.historyLimit),
                            !.i = 0,
                            !.deletedCount = 0,
                            !.pc = "delete"]]
                   /\ Record(<<>>)
    /\ UNCHANGED <<store, deleted, clockVars, trackVars, lockVars, cfgVars>>

\* List returns an error, which the cleanup and ProcessEvent return.
doResourceCleanupListFails(w) ==
    /\ workers[w].pc = "list"
    /\ workers' = [workers EXCEPT ![w] = ReturnError(@)]
    /\ Record(<<"resourcesErrors", "historyProcessingDuration">>)
    /\ UNCHANGED <<store, deleted, clockVars, trackVars, lockVars, cfgVars>>

\* Mutant: NotFound is returned like any other error.
doResourceCleanupDeleteNotFoundAborts(w) ==
    /\ workers[w].pc = "delete"
    /\ workers[w].i < workers[w].resourcesToDelete
    /\ workers[w].i < Len(workers[w].completedResources)
    /\ LET worker == workers[w]
           res == worker.completedResources[worker.i + 1]
           found == res.name \in DOMAIN store
           after == [worker EXCEPT !.i = @ + 1, !.deletedCount = @ + 1, !.err = ""]
       IN  /\ store' = [k \in DOMAIN store \ {res.name} |-> store[k]]
           /\ deleted' = [deleted EXCEPT ![w] = IF found THEN @ \cup {store[res.name]} ELSE @]
           /\ workers' = [workers EXCEPT ![w] =
                             IF ~found THEN [ReturnError(worker) EXCEPT !.err = "NotFound"]
                             ELSE IF after.i < after.resourcesToDelete THEN after
                             ELSE NextPhase(after)]
           /\ Record(IF ~found THEN <<"resourcesErrors", "historyProcessingDuration">>
                     ELSE <<"resourcesDeleted">>
                          \o (IF after.i < after.resourcesToDelete THEN <<>>
                              ELSE <<"historyLimitEvents">> \o OnReturn(NextPhase(after))))
    /\ UNCHANGED <<clockVars, trackVars, lockVars, cfgVars>>

\* One round of the delete loop: a resource that is already gone (NotFound)
\* is passed over; after the last round the cleanup returns nil.
doResourceCleanupDelete(w) ==
    /\ workers[w].pc = "delete"
    /\ workers[w].i < workers[w].resourcesToDelete
    /\ workers[w].i < Len(workers[w].completedResources)
    /\ LET worker == workers[w]
           res == worker.completedResources[worker.i + 1]
           found == res.name \in DOMAIN store
           after == [worker EXCEPT !.i = @ + 1,
                                   !.deletedCount = IF found THEN @ + 1 ELSE @,
                                   !.err = IF found THEN "" ELSE "NotFound"]
       IN  /\ store' = [k \in DOMAIN store \ {res.name} |-> store[k]]
           /\ deleted' = [deleted EXCEPT ![w] = IF found THEN @ \cup {store[res.name]} ELSE @]
           /\ workers' = [workers EXCEPT ![w] =
                             IF after.i < after.resourcesToDelete THEN after ELSE NextPhase(after)]
           /\ Record((IF found THEN <<"resourcesDeleted">> ELSE <<>>)
                     \o (IF after.i < after.resourcesToDelete THEN <<>>
                         ELSE <<"historyLimitEvents">> \o OnReturn(NextPhase(after))))
    /\ UNCHANGED <<clockVars, trackVars, lockVars, cfgVars>>

\* Mutant: a failed Delete is logged and the loop goes on.
doResourceCleanupDeleteFailsContinues(w) ==
    /\ workers[w].pc = "delete"
    /\ workers[w].i < workers[w].resourcesToDelete
    /\ workers[w].i < Len(workers[w].completedResources)
    /\ LET after == [workers[w] EXCEPT !.i = @ + 1, !.err = "Internal"]
       IN  /\ workers' = [workers EXCEPT ![w] =
                             IF after.i < after.resourcesToDelete THEN after ELSE NextPhase(after)]
           /\ Record(<<"resourceDeleteErrors">>
                     \o (IF after.i < after.resourcesToDelete THEN <<>>
                         ELSE <<"historyLimitEvents">> \o OnReturn(NextPhase(after))))
    /\ UNCHANGED <<store, deleted, clockVars, trackVars, lockVars, cfgVars>>

\* Delete returns an error other than NotFound: the cleanup returns it.
doResourceCleanupDeleteFails(w) ==
    /\ workers[w].pc = "delete"
    /\ workers[w].i < workers[w].resourcesToDelete
    /\ workers[w].i < Len(workers[w].completedResources)
    /\ workers' = [workers EXCEPT ![w] = ReturnError(@)]
    /\ Record(<<"resourceDeleteErrors", "resourcesErrors", "historyProcessingDuration">>)
    /\ UNCHANGED <<store, deleted, clockVars, trackVars, lockVars, cfgVars>>

\* res := completedResources[i] with i past the end of the slice: the index
\* expression panics before Delete is called, and nothing in ProcessEvent or
\* doResourceCleanup recovers.
doResourceCleanupIndexPanics(w) ==
    /\ workers[w].pc = "delete"
    /\ workers[w].i < workers[w].resourcesToDelete
    /\ workers[w].i >= Len(workers[w].completedResources)
    /\ workers' = [workers EXCEPT ![w] = [@ EXCEPT !.pc = "panic", !.ret = "panic"]]
    /\ UNCHANGED <<store, deleted, clockVars, trackVars, metrics, lockVars, cfgVars>>

(***************************************************************************)
(* The clusters and policies the cleanup is exercised on.                  *)
(***************************************************************************)
MaxRuns == 3
RunNames == <<"r1", "r2", "r3", "r4", "r5">>
Runs == 1..MaxRuns

\* Creation times in creation order: each run is created with or after the
\* one before it.
CreationTimestamps ==
    {ts \in [Runs -> 0..(MaxRuns - 1)] :
        /\ ts[1] = 0
        /\ \A i \in Runs \ {1} : ts[i] - ts[i - 1] \in {0, 1}}

ProcessedAnnotations ==
    SetAnnotation(NoAnnotations, AnnotationHistoryLimitCheckProcessed, FormatRFC3339(0))

Cluster(ts, status, pipeline, processed) ==
    [k \in {RunNames[i] : i \in Runs} |->
        LET i == CHOOSE j \in Runs : RunNames[j] = k
        IN  Resource(k, ts[i], status[i], pipeline[i],
                     IF i \in processed THEN ProcessedAnnotations ELSE NoAnnotations)]

\* Every run succeeded or failed, the last one may still be running and may
\* belong to another pipeline; the first may have been processed before.
Clusters ==
    {Cluster(ts, status, pipeline, processed) :
        ts \in CreationTimestamps,
        status \in {f \in [Runs -> {"Succeeded", "Failed", "Running"}] :
                       \A i \in Runs : f[i] = "Running" => i = MaxRuns},
        pipeline \in {f \in [Runs -> {"p1", "p2"}] : \A i \in Runs : f[i] = "p2" => i = MaxRuns},
        processed \in {{}, {1}}}

\* The limits at the global root and at the root of the namespace's entry in
\* the global policy.
LimitPolicy(succ, failed, hist, nsSucc) ==
    prunerConfigStore(
        PrunerConfig("", Nil, succ, failed, hist,
                     [k \in {EventNamespace} |-> NamespaceSpec("", Nil, nsSucc, Nil, Nil, <<>>, <<>>)]),
        EmptyMap)

LimitPolicies ==
    {LimitPolicy(succ, failed, hist, nsSucc) :
        succ \in {Nil} \cup {Ptr(l) : l \in 0..(MaxRuns - 1)},
        failed \in {Nil, Ptr(1)},
        hist \in {Nil, Ptr(1)},
        nsSucc \in {Nil, Ptr(1)}}

NoLockers ==
    /\ reload = IdleReload
    /\ NoTracker
    /\ metrics = NoMetrics
    /\ now = 0
    /\ ticks = 0
    /\ lockers = [p \in Lockers |-> IdleLocker]
    /\ acquired = [p \in Lockers |-> NotAcquired]

InitCleanup ==
    /\ PrunerConfigStore \in LimitPolicies
    /\ query = NoQuery /\ result = Nil /\ mutation = NoMutation
    /\ store \in Clusters
    /\ workers = [w \in Workers |-> IdleWorker]
    /\ deleted = [w \in Workers |-> {}]
    /\ NoLockers

\* One reconciler: no two ProcessEvent calls overlap.
SingleWorker == {1}

NextCleanup ==
    \/ \E w \in SingleWorker, name \in DOMAIN store : ProcessEvent(w, name)
    \/ \E w \in SingleWorker : markAsProcessedGet(w)
    \/ \E w \in SingleWorker : markAsProcessedGetFails(w)
    \/ \E w \in SingleWorker : markAsProcessedPatch(w)
    \/ \E w \in SingleWorker : markAsProcessedPatchFails(w)
    \/ \E w \in SingleWorker : doResourceCleanupLimit(w)
    \/ \E w \in SingleWorker : doResourceCleanupList(w)
    \/ \E w \in SingleWorker : doResourceCleanupListFails(w)
    \/ \E w \in SingleWorker : doResourceCleanupDelete(w)
    \/ \E w \in SingleWorker : doResourceCleanupDeleteFails(w)

SpecCleanup == InitCleanup /\ [][NextCleanup]_vars

(***************************************************************************)
(* C2, C4, C5: one cleanup pass.                                           *)
(***************************************************************************)
PhaseOf(resource) == IF IsSuccessful(resource) THEN "successful" ELSE "failed"

LimitFieldOf(resource) ==
    IF IsSuccessful(resource) THEN PrunerFieldTypeSuccessfulHistoryLimit
    ELSE PrunerFieldTypeFailedHistoryLimit

\* What the policy document says about the limit for the event's resource.
EventQuery(w) ==
    Query(EventNamespace, getResourceName(workers[w].resource), PrunerResourceTypePipelineRun,
          LimitFieldOf(workers[w].resource), EnforcedConfigLevelResource)

ConfiguredLimit(w) == FirstSet(ChainResource, EventQuery(w))

\* The completed resources of the event's grouping and status still stored.
Retained(w) ==
    CompletedResources(store, getResourceName(workers[w].resource), PhaseOf(workers[w].resource))

\* ProcessEvent returned nil after running the cleanup for its resource.
PassDone(w) ==
    /\ workers[w].pc = "done"
    /\ workers[w].ret = "nil"
    /\ workers[w].skipped = ""

\* C2: with N completed resources of the status in the grouping and a limit L,
\* 0 <= L < N, a pass that met no store error has deleted exactly N - L of
\* them, L are retained, and no retained resource was created before a
\* deleted one.
C2_DeletesExcessOldestFirst ==
    \A w \in SingleWorker :
        LET N == Cardinality(Retained(w)) + Cardinality(deleted[w])
            L == ConfiguredLimit(w)
        IN  (PassDone(w) /\ L # Nil /\ 0 <= L[1] /\ L[1] < N)
                => /\ Cardinality(deleted[w]) = N - L[1]
                   /\ Cardinality(Retained(w)) = L[1]
                   /\ \A d \in deleted[w] :
                         /\ d.name \notin DOMAIN store
                         /\ d.status = workers[w].resource.status
                         /\ getResourceName(d) = getResourceName(workers[w].resource)
                         /\ \A r \in Retained(w) : d.creationTimestamp <= r.creationTimestamp

\* A pass with limit 1 deleted two resources and retained one created at the
\* same time as a deleted one.
C2_Witness ==
    /\ PassDone(1)
    /\ ConfiguredLimit(1) = Ptr(1)
    /\ Cardinality(deleted[1]) = 2
    /\ \E d \in deleted[1], r \in Retained(1) : d.creationTimestamp = r.creationTimestamp

LimitUnsetEverywhere(w) ==
    \A i \in 1..Len(Layers) : LayerValue(Layers[i], EventQuery(w)) = Nil

\* C4: when the limit for the status of the event's resource is unset at every
\* layer, the call deletes nothing.
C4_UnsetLimitDeletesNothing ==
    \A w \in SingleWorker :
        (workers[w].pc # "idle" /\ LimitUnsetEverywhere(w))
            => /\ deleted[w] = {}
               /\ DOMAIN store = {RunNames[i] : i \in Runs}

\* A failed run's event was handled with no failed limit anywhere and two or
\* more failed runs in its grouping.
C4_Witness ==
    /\ PassDone(1)
    /\ IsFailed(workers[1].resource)
    /\ LimitUnsetEverywhere(1)
    /\ Cardinality(Retained(1)) >= 2

\* C5: with historyLimit = H configured, after the cleanup for a pipeline the
\* completed runs retained for it, of both statuses together, number at most H.
C5_TotalHistoryLimit ==
    \A w \in SingleWorker :
        LET H == PrunerConfigStore.globalConfig.HistoryLimit
            pipeline == getResourceName(workers[w].resource)
        IN  (PassDone(w) /\ H # Nil)
                => Cardinality(CompletedResources(store, pipeline, "successful")
                                  \cup CompletedResources(store, pipeline, "failed")) <= H[1]

(***************************************************************************)
(* C3: two reconcilers handle events of one grouping at the same time.     *)
(***************************************************************************)
RacePipeline == "p1"

\* Succeeded runs of one pipeline, none processed yet, and a successful limit
\* below their number.
InitRace ==
    /\ PrunerConfigStore \in
          {LimitPolicy(Ptr(l), Nil, Nil, Nil) : l \in 1..(MaxRuns - 1)}
    /\ query = NoQuery /\ result = Nil /\ mutation = NoMutation
    /\ store \in {Cluster(ts, [i \in Runs |-> "Succeeded"], [i \in Runs |-> RacePipeline], {}) :
                     ts \in CreationTimestamps}
    /\ workers = [w \in Workers |-> IdleWorker]
    /\ deleted = [w \in Workers |-> {}]
    /\ NoLockers

NextRace ==
    \/ \E w \in Workers, name \in DOMAIN store : ProcessEvent(w, name)
    \/ \E w \in Workers : markAsProcessedGet(w)
    \/ \E w \in Workers : markAsProcessedGetFails(w)
    \/ \E w \in Workers : markAsProcessedPatch(w)
    \/ \E w \in Workers : markAsProcessedPatchFails(w)
    \/ \E w \in Workers : doResourceCleanupLimit(w)
    \/ \E w \in Workers : doResourceCleanupList(w)
    \/ \E w \in Workers : doResourceCleanupListFails(w)
    \/ \E w \in Workers : doResourceCleanupDelete(w)
    \/ \E w \in Workers : doResourceCleanupDeleteFails(w)

SpecRace == InitRace /\ [][NextRace]_vars

RaceLimit ==
    FirstSet(ChainResource,
             Query(EventNamespace, RacePipeline, PrunerResourceTypePipelineRun,
                   PrunerFieldTypeSuccessfulHistoryLimit, EnforcedConfigLevelResource))

Min(a, b) == IF a <= b THEN a ELSE b

\* C3: once every concurrent pass has finished, at least min(L, number of
\* completed resources of the status) of them remain.
C3_NeverDeletesBelowLimit ==
    LET remaining == Cardinality(CompletedResources(store, RacePipeline, "successful"))
        removed == Cardinality(UNION {deleted[w] : w \in Workers})
    IN  (\A w \in Workers : workers[w].pc = "done")
            => remaining >= Min(RaceLimit[1], remaining + removed)


(***************************************************************************)
(* Policy documents: what a ConfigMap's global-config key can hold.  A     *)
(* document is absent (no data, no key or an empty string), malformed      *)
(* (yaml.Unmarshal returns an error, having decoded `config` so far) or    *)
(* well-formed YAML for `config`.                                          *)
(***************************************************************************)
Document(kind, config) == [kind |-> kind, config |-> config]

\* yaml.Unmarshal into a fresh &PrunerConfig{}: the error and what the target
\* holds afterwards.
Unmarshal(doc) ==
    [err |-> doc.kind = "malformed",
     into |-> IF doc.kind = "absent" THEN EmptyPrunerConfig ELSE doc.config]

NegativeField(spec, fields) == \E f \in fields : spec[f] # Nil /\ spec[f][1] < 0

ValidLevel(level) == level = "" \/ level \in EnforcedConfigLevels

validateResourceSpec(resourceSpec) ==
    /\ ~NegativeField(resourceSpec.Selector,
                      {"TTLSecondsAfterFinished", "SuccessfulHistoryLimit", "FailedHistoryLimit"})
    /\ ValidLevel(resourceSpec.Selector.EnforcedConfigLevel)

validateNamespaceSpec(nsSpec) ==
    /\ ~NegativeField(nsSpec, {"TTLSecondsAfterFinished", "SuccessfulHistoryLimit",
                               "FailedHistoryLimit", "HistoryLimit"})
    /\ \A i \in 1..Len(nsSpec.PipelineRuns) : validateResourceSpec(nsSpec.PipelineRuns[i])
    /\ \A i \in 1..Len(nsSpec.TaskRuns) : validateResourceSpec(nsSpec.TaskRuns[i])

validatePrunerConfigFields(cfg) ==
    /\ ValidLevel(cfg.EnforcedConfigLevel)
    /\ ~NegativeField(cfg, {"TTLSecondsAfterFinished", "SuccessfulHistoryLimit",
                            "FailedHistoryLimit", "HistoryLimit"})
    /\ \A ns \in DOMAIN cfg.Namespaces : validateNamespaceSpec(cfg.Namespaces[ns])

\* TRUE when the webhook admits the document.
validatePrunerConfigMap(doc) ==
    /\ doc.kind = "yaml"
    /\ validatePrunerConfigFields(doc.config)

\* Mutant: the document is unmarshalled straight into ps.globalConfig.
LoadedGlobalConfigInPlace(globalConfig, doc) == Unmarshal(doc).into

\* Mutant: a ConfigMap without the key leaves ps.globalConfig as it is.
LoadedGlobalConfigKeptWhenAbsent(globalConfig, doc) ==
    IF Unmarshal(doc).err \/ doc.kind = "absent" THEN globalConfig ELSE Unmarshal(doc).into

\* ps.globalConfig when LoadGlobalConfig returns: untouched on a parse error,
\* else the parsed configuration.
LoadedGlobalConfig(globalConfig, doc) ==
    IF Unmarshal(doc).err THEN globalConfig ELSE Unmarshal(doc).into

GetPipelineTTLSecondsAfterFinished(ps, namespace, name) ==
    getResourceFieldData(ps.namespacedConfig, ps.globalConfig, namespace, name,
                         PrunerResourceTypePipelineRun,
                         PrunerFieldTypeTTLSecondsAfterFinished,
                         GetPipelineEnforcedConfigLevel(ps, namespace, name))

(***************************************************************************)
(* Reloads and reads of the policy store.                                  *)
(***************************************************************************)
ReloadTarget == <<"ns1", "p1">>

\* The parse fails: LoadGlobalConfig returns the error.
LoadGlobalConfigError(doc) ==
    /\ reload.pc = "idle"
    /\ Unmarshal(doc).err
    /\ PrunerConfigStore' =
          [PrunerConfigStore EXCEPT !.globalConfig = LoadedGlobalConfig(@, doc)]
    /\ reload' = [pc |-> "idle", doc |-> doc, previous |-> PrunerConfigStore.globalConfig,
                  ret |-> "error"]
    /\ query' = NoQuery
    /\ result' = Nil
    /\ UNCHANGED <<mutation, store, clockVars, trackVars, metrics, lockVars, cleanVars>>

\* The parse succeeds; the mutex is held and ps.globalConfig is about to be
\* overwritten.
LoadGlobalConfigLock(doc) ==
    /\ reload.pc = "idle"
    /\ ~Unmarshal(doc).err
    /\ reload' = [pc |-> "assigning", doc |-> doc, previous |-> PrunerConfigStore.globalConfig,
                  ret |-> "none"]
    /\ query' = NoQuery
    /\ result' = Nil
    /\ UNCHANGED <<PrunerConfigStore, mutation, store, clockVars, trackVars, metrics, lockVars, cleanVars>>

\* The assignment is complete, the mutex released, nil returned.
LoadGlobalConfigUnlock ==
    /\ reload.pc = "assigning"
    /\ PrunerConfigStore' =
          [PrunerConfigStore EXCEPT !.globalConfig = LoadedGlobalConfig(@, reload.doc)]
    /\ reload' = [reload EXCEPT !.pc = "idle", !.ret = "nil"]
    /\ UNCHANGED <<query, result, mutation, store, clockVars, trackVars, metrics, lockVars, cleanVars>>

\* A getter that takes the mutex: it runs only outside a reload.
CallGetPipelineTTLSecondsAfterFinished ==
    /\ reload.pc = "idle"
    /\ query' = Query(ReloadTarget[1], ReloadTarget[2], PrunerResourceTypePipelineRun,
                      PrunerFieldTypeTTLSecondsAfterFinished, "")
    /\ result' = GetPipelineTTLSecondsAfterFinished(PrunerConfigStore, ReloadTarget[1],
                                                    ReloadTarget[2])
    /\ UNCHANGED <<PrunerConfigStore, mutation, reload, store, clockVars, trackVars, metrics, lockVars, cleanVars>>

\* The fields of ps.globalConfig that getEnforcedConfigLevel reads.
LevelFields == {"EnforcedConfigLevel", "Namespaces"}

\* ps.globalConfig as a reader without the mutex can find it while the
\* assignment is under way: each field already written or not yet.
Observed(globalConfig, new, written) ==
    [f \in DOMAIN globalConfig |-> IF f \in written THEN new[f] ELSE globalConfig[f]]

\* GetPipelineEnforcedConfigLevel takes no mutex: it also runs during a reload.
CallGetPipelineEnforcedConfigLevel ==
    /\ \E written \in SUBSET LevelFields :
          /\ reload.pc = "idle" => written = {}
          /\ result' = GetPipelineEnforcedConfigLevel(
                          [PrunerConfigStore EXCEPT !.globalConfig =
                              Observed(@, Unmarshal(reload.doc).into, written)],
                          ReloadTarget[1], ReloadTarget[2])
    /\ query' = Query(ReloadTarget[1], ReloadTarget[2], PrunerResourceTypePipelineRun,
                      "enforcedConfigLevel", "")
    /\ UNCHANGED <<PrunerConfigStore, mutation, reload, store, clockVars, trackVars, metrics, lockVars, cleanVars>>

\* The namespace maps of the documents: none, a namespace root with a level
\* and a TTL, a negative limit at a namespace root, a negative limit in a
\* selector.
ReloadNamespaces ==
    {EmptyMap,
     [k \in {"ns1"} |-> NamespaceSpec("namespace", Ptr(30), Nil, Nil, Nil, <<>>, <<>>)],
     [k \in {"ns1"} |-> NamespaceSpec("", Nil, Ptr(-1), Nil, Nil, <<>>, <<>>)],
     [k \in {"ns1"} |->
        NamespaceSpec("", Nil, Nil, Nil, Nil,
                      <<ResourceSpec(Selector("p1", Ptr(20), Nil, Ptr(-1), "resource"))>>, <<>>)]}

ReloadConfigs ==
    {PrunerConfig(level, ttl, Nil, Nil, Nil, namespaces) :
        level \in {"", EnforcedConfigLevelGlobal},
        ttl \in {Ptr(60), Ptr(-1)},
        namespaces \in ReloadNamespaces}

\* Well-formed documents, documents whose parse fails after the root fields
\* were decoded, and the absent document.
Documents ==
    {Document("yaml", c) : c \in ReloadConfigs}
        \cup {Document("malformed", c) : c \in {d \in ReloadConfigs : d.Namespaces = EmptyMap}}
        \cup {Document("absent", EmptyPrunerConfig)}

\* The store as the process starts it, before the first load.
InitReload ==
    /\ PrunerConfigStore = prunerConfigStore(EmptyPrunerConfig, EmptyMap)
    /\ query = NoQuery /\ result = Nil /\ mutation = NoMutation
    /\ NoCluster

NextReload ==
    \/ \E doc \in Documents : LoadGlobalConfigError(doc)
    \/ \E doc \in Documents : LoadGlobalConfigLock(doc)
    \/ LoadGlobalConfigUnlock
    \/ CallGetPipelineTTLSecondsAfterFinished
    \/ CallGetPipelineEnforcedConfigLevel

SpecReload == InitReload /\ [][NextReload]_vars

(***************************************************************************)
(* C11, C12, C13: reloads.                                                 *)
(***************************************************************************)
\* What the last read returns on a store whose global policy is cfg.
ReadOn(cfg) ==
    LET ps == [PrunerConfigStore EXCEPT !.globalConfig = cfg]
    IN  IF query.fieldType = "enforcedConfigLevel"
        THEN GetPipelineEnforcedConfigLevel(ps, query.namespace, query.name)
        ELSE GetPipelineTTLSecondsAfterFinished(ps, query.namespace, query.name)

\* C11: a read made since the last reload began returns what the complete
\* previous policy gives or what the complete new policy gives.
C11_ReadsSeeWholePolicy ==
    query # NoQuery
        => result \in {ReadOn(reload.previous), ReadOn(LoadedGlobalConfig(reload.previous, reload.doc))}

\* C12: after a reload that returned a parse error the global policy is the
\* one it found, and a read made since returns what that policy gives.
C12_FailedReloadAppliesNothing ==
    (reload.pc = "idle" /\ reload.ret = "error")
        => /\ PrunerConfigStore.globalConfig = reload.previous
           /\ query # NoQuery => result = ReadOn(reload.previous)

\* A malformed document that decodes to another policy than the loaded,
\* non-empty one was refused, and a TTL was read afterwards.
C12_Witness ==
    /\ reload.pc = "idle"
    /\ reload.ret = "error"
    /\ reload.previous # EmptyPrunerConfig
    /\ Unmarshal(reload.doc).into # reload.previous
    /\ query # NoQuery
    /\ query.fieldType = PrunerFieldTypeTTLSecondsAfterFinished
    /\ result = Ptr(60)

\* C13: the active policy never carries a value validation rejects.
C13_NegativeNeverActive ==
    validatePrunerConfigFields(PrunerConfigStore.globalConfig)

(***************************************************************************)
(* C14, C15, C16: releasing and outliving a lock.                          *)
(***************************************************************************)
StoredAnnotations == store[LockTarget].annotations
StoredLockOf(p) ==
    /\ PrunerLockAnnotation \in DOMAIN StoredAnnotations
    /\ isOwnedByMe(InstanceID(p), StoredAnnotations[PrunerLockAnnotation])
StoredLockOfAnother(p) ==
    /\ PrunerLockAnnotation \in DOMAIN StoredAnnotations
    /\ ~isOwnedByMe(InstanceID(p), StoredAnnotations[PrunerLockAnnotation])

\* C14: a ReleaseLock call leaves the stored lock alone when it belongs to
\* another owner.
C14_ReleaseLeavesForeignLock ==
    [][\A p \in Lockers :
          (lockers[p].pc = "returned" /\ lockers'[p].pc = "released" /\ StoredLockOfAnother(p))
              => store' = store]_vars

\* C15: once an owner whose TryLock returned true has called ReleaseLock, no
\* other caller having written, the stored resource carries no lock.
C15_ReleaseClearsLock ==
    \A p \in Lockers :
        (/\ lockers[p].pc = "released"
         /\ lockers[p].ret = "true"
         /\ \A q \in Lockers \ {p} : lockers[q].lockValue = <<>>)
            => PrunerLockAnnotation \notin DOMAIN StoredAnnotations

\* When p's TryLock call built (or is about to build) its lock value.
CallTime(p) == IF lockers[p].pc = "patched" THEN acquired[p].ts ELSE now

\* Another caller took the lock more than LockTimeout before p's call, its
\* TryLock returned true and it has not released since.
Abandoned(p) ==
    \E q \in Lockers \ {p} :
        /\ Holds(q)
        /\ lockers[q].pc = "returned"
        /\ CallTime(p) - acquired[q].ts > LockTimeout

\* C16: a TryLock call never returns false on a resource whose only lock was
\* taken more than LockTimeout ago by a holder that went away: it returns
\* true, or the error of a failed store call.
C16_AbandonedLockExpires ==
    [][\A p \in Lockers :
          (Abandoned(p) /\ lockers[p].pc \in {"ready", "patched"} /\ lockers'[p].pc = "returned")
              => lockers'[p].ret \in {"true", "error"}]_vars

\* Both callers hold a lock they never released, the second taken more than
\* LockTimeout after the first.
C16_Witness ==
    \E p \in Lockers, q \in Lockers :
        /\ Holds(p) /\ Holds(q)
        /\ lockers[p].pc = "returned" /\ lockers[q].pc = "returned"
        /\ acquired[q].ts - acquired[p].ts > LockTimeout
        /\ StoredLockOf(q)


(***************************************************************************)
(* ProcessEvent: locking, the entry checks, marker failures, NotFound.     *)
(***************************************************************************)
\* The event's resource as it is stored now, or as it was when deleted.
EventResourceNow(w) ==
    IF workers[w].resource.name \in DOMAIN store THEN store[workers[w].resource.name]
    ELSE IF \E d \in UNION {deleted[v] : v \in Workers} : d.name = workers[w].resource.name
    THEN CHOOSE d \in UNION {deleted[v] : v \in Workers} : d.name = workers[w].resource.name
    ELSE workers[w].resource

\* C17: a pass that has got to its List or Delete holds the advisory lock of
\* the event's resource: a TryLock returned true for a caller, or the lock
\* annotation is stored on the resource.
C17_LockPrecedesCleanup ==
    \A w \in Workers :
        (workers[w].pc \in {"list", "delete"} \/ workers[w].listed # {})
            => \/ \E p \in Lockers : Holds(p)
               \/ PrunerLockAnnotation \in DOMAIN EventResourceNow(w).annotations

\* C18: ProcessEvent on a resource that carries the processed marker, or that
\* is not completed, has returned nil without a Get, Patch, List or Delete.
C18_SkippedEventTouchesNothing ==
    \A w \in SingleWorker :
        (/\ workers[w].pc # "idle"
         /\ \/ AnnotationHistoryLimitCheckProcessed \in DOMAIN workers[w].resource.annotations
            \/ ~IsCompleted(workers[w].resource))
            => /\ workers[w].pc = "done" /\ workers[w].ret = "nil"
               /\ workers[w].phase = "none"
               /\ workers[w].resourceLatest = NoResource
               /\ workers[w].completedResources = <<>> /\ workers[w].listed = {}
               /\ deleted[w] = {}
               /\ DOMAIN store = {RunNames[i] : i \in Runs}
               /\ store[workers[w].resource.name] = workers[w].resource

\* An already processed, completed resource over a limit of zero was skipped.
C18_Witness ==
    /\ workers[1].pc = "done"
    /\ workers[1].skipped = "already_processed"
    /\ IsCompleted(workers[1].resource)
    /\ ConfiguredLimit(1) = Ptr(0)

\* markAsProcessed returned without the marker being set.
MarkerFailed(w) ==
    /\ workers[w].skipped = ""
    /\ workers[w].pc \notin {"idle", "markGet", "markPatch"}
    /\ AnnotationHistoryLimitCheckProcessed \notin DOMAIN EventResourceNow(w).annotations

\* C19: when the marker could not be set, ProcessEvent returns an error only
\* from the List or Delete of a cleanup, and a pass that returned nil deleted
\* what the limit prescribes: the N - L oldest when 0 <= L < N, nothing when
\* the limit is unset or N <= L.
C19_MarkerFailureIsNotFatal ==
    \A w \in SingleWorker :
        LET N == Cardinality(Retained(w)) + Cardinality(deleted[w])
            L == ConfiguredLimit(w)
        IN  MarkerFailed(w)
                => /\ workers[w].ret = "error" => workers[w].historyLimit # Nil
                   /\ (PassDone(w) /\ (L = Nil \/ N <= L[1])) => deleted[w] = {}
                   /\ (PassDone(w) /\ L # Nil /\ 0 <= L[1] /\ L[1] < N)
                         => /\ Cardinality(deleted[w]) = N - L[1]
                            /\ \A d \in deleted[w], r \in Retained(w) :
                                  d.creationTimestamp <= r.creationTimestamp
                   /\ workers[w].pc = "done" => ~isProcessed(EventResourceNow(w))

\* The marker was not set and the pass still deleted the two oldest of three.
C19_Witness ==
    /\ MarkerFailed(1)
    /\ PassDone(1)
    /\ ConfiguredLimit(1) = Ptr(1)
    /\ Cardinality(deleted[1]) = 2

\* C20: a Delete answered NotFound never makes the pass return an error: the
\* pass is at the next resource of the excess, or its cleanup has gone through
\* the whole excess and returned nil, and a pass that returned nil left none
\* of its excess in the store.
C20_NotFoundIsTolerated ==
    \A w \in Workers :
        /\ workers[w].err = "NotFound"
              => /\ workers[w].ret # "error"
                 /\ \/ workers[w].pc = "delete" /\ workers[w].i < workers[w].resourcesToDelete
                    \/ /\ workers[w].pc = "cleanup" \/ PassDone(w)
                       /\ workers[w].i = workers[w].resourcesToDelete
        /\ (PassDone(w) /\ workers[w].resourcesToDelete > 0)
              => \A j \in 1..workers[w].resourcesToDelete :
                    workers[w].completedResources[j].name \notin DOMAIN store

\* A pass found the first resource of its excess already gone, deleted the
\* second and returned nil.
C20_Witness ==
    \E w \in Workers :
        /\ PassDone(w)
        /\ workers[w].resourcesToDelete = 2
        /\ workers[w].deletedCount = 1
        /\ workers[w].completedResources[1] \notin deleted[w]
        /\ workers[w].completedResources[2] \in deleted[w]


(***************************************************************************)
(* The cleanup pass: store errors, ordering, status filter, re-runs.       *)
(***************************************************************************)
\* C21: a pass that met a store error other than NotFound has returned the
\* error and stopped there: what it deleted is exactly what came before the
\* failing call in its order, and the rest of its excess is still stored.
C21_StoreErrorStopsPass ==
    \A w \in SingleWorker :
        workers[w].err = "Internal"
            => /\ workers[w].pc = "done" /\ workers[w].ret = "error"
               /\ deleted[w] = {workers[w].completedResources[j] : j \in 1..workers[w].i}
               /\ workers[w].deletedCount = workers[w].i
               /\ workers[w].completedResources = <<>> => deleted[w] = {}
               /\ \A j \in (workers[w].i + 1)..Len(workers[w].completedResources) :
                     workers[w].completedResources[j].name \in DOMAIN store

\* The second of two Deletes failed: one resource deleted, the error returned.
C21_Witness ==
    /\ workers[1].ret = "error"
    /\ workers[1].resourcesToDelete = 2
    /\ workers[1].i = 1
    /\ Cardinality(deleted[1]) = 1

NameIndex(name) == CHOOSE i \in 1..Len(RunNames) : RunNames[i] = name

\* C22: the order a pass deletes in is ascending by creation timestamp with
\* ties broken by name.
C22_TiesBrokenByName ==
    \A w \in SingleWorker :
        workers[w].pc = "delete"
            => \A j, k \in 1..Len(workers[w].completedResources) :
                  j < k => LET a == workers[w].completedResources[j]
                               b == workers[w].completedResources[k]
                           IN  \/ a.creationTimestamp < b.creationTimestamp
                               \/ /\ a.creationTimestamp = b.creationTimestamp
                                  /\ NameIndex(a.name) < NameIndex(b.name)

\* C23: a pass works with the limit of the status of the event's resource and
\* deletes only completed resources of that status.
C23_StatusFilter ==
    \A w \in SingleWorker :
        /\ workers[w].historyLimit # Nil => workers[w].historyLimit = ConfiguredLimit(w)
        /\ \A d \in deleted[w] :
              /\ IsCompleted(d)
              /\ IsSuccessful(workers[w].resource) => IsSuccessful(d)
              /\ IsFailed(workers[w].resource) => IsFailed(d)
        /\ \A i \in Runs : RunNames[i] \in DOMAIN store \/ \E d \in deleted[w] : d.name = RunNames[i]

\* A pass deleted a resource and left an older completed resource of the same
\* pipeline and the other status in the store.
C23_Witness ==
    /\ PassDone(1)
    /\ \E d \in deleted[1], k \in DOMAIN store :
          /\ IsCompleted(store[k])
          /\ store[k].status # d.status
          /\ getResourceName(store[k]) = getResourceName(d)
          /\ store[k].creationTimestamp < d.creationTimestamp

(***************************************************************************)
(* Two passes one after the other: the second ProcessEvent starts when the *)
(* first has returned nil.                                                 *)
(***************************************************************************)
InitRerun ==
    /\ PrunerConfigStore \in
          {LimitPolicy(Ptr(l), Nil, Nil, Nil) : l \in 0..(MaxRuns - 1)}
    /\ query = NoQuery /\ result = Nil /\ mutation = NoMutation
    /\ store \in {Cluster(ts, [i \in Runs |-> "Succeeded"], [i \in Runs |-> RacePipeline], {}) :
                     ts \in CreationTimestamps}
    /\ workers = [w \in Workers |-> IdleWorker]
    /\ deleted = [w \in Workers |-> {}]
    /\ NoLockers

InTurn(w) == w = 1 \/ PassDone(1)

NextRerun ==
    \/ \E w \in Workers, name \in DOMAIN store : InTurn(w) /\ ProcessEvent(w, name)
    \/ \E w \in Workers : InTurn(w) /\ markAsProcessedGet(w)
    \/ \E w \in Workers : InTurn(w) /\ markAsProcessedGetFails(w)
    \/ \E w \in Workers : InTurn(w) /\ markAsProcessedPatch(w)
    \/ \E w \in Workers : InTurn(w) /\ markAsProcessedPatchFails(w)
    \/ \E w \in Workers : InTurn(w) /\ doResourceCleanupLimit(w)
    \/ \E w \in Workers : InTurn(w) /\ doResourceCleanupList(w)
    \/ \E w \in Workers : InTurn(w) /\ doResourceCleanupListFails(w)
    \/ \E w \in Workers : InTurn(w) /\ doResourceCleanupDelete(w)
    \/ \E w \in Workers : InTurn(w) /\ doResourceCleanupDeleteFails(w)

SpecRerun == InitRerun /\ [][NextRerun]_vars

\* C24: a pass run after a pass that returned nil, on what that pass retained
\* and with the same limit, finds the count within the limit and deletes
\* nothing.
C24_RerunDeletesNothing ==
    workers[2].pc # "idle"
        => /\ deleted[2] = {}
           /\ workers[2].pc # "delete"
           /\ workers[2].resourcesToDelete = 0
           /\ workers[2].ret # "nil" \/ workers[2].skipped # ""
                 \/ DOMAIN store = {d.name : d \in Retained(1)}

\* The first pass deleted two of three, the second listed and returned nil.
C24_Witness ==
    /\ Cardinality(deleted[1]) = 2
    /\ PassDone(2)
    /\ workers[2].listed # {}


(***************************************************************************)
(* DeletionTracker and the Recorder's deduplicated counters.  Names and    *)
(* keys are sequences of tokens, so that Sprintf's concatenation is        *)
(* concatenation here.                                                     *)
(***************************************************************************)
Minute == 60
RetentionWindow == 10 * Minute
ResourceTypePipelineRun == "pipelinerun"

\* fmt.Sprintf("%s/%s/%s", resourceType, namespace, name)
deletionKey(resourceType, namespace, name) == <<resourceType, "/", namespace, "/">> \o name

\* Mutant: an entry exactly one minute old still counts as recent.
RecordDeletionReturnsInclusive(items, key, t) ==
    ~(key \in DOMAIN items /\ t - items[key] <= Minute)

\* RecordDeletion's result at time t: false when the key has an entry younger
\* than a minute.
RecordDeletionReturns(items, key, t) ==
    ~(key \in DOMAIN items /\ t - items[key] < Minute)

\* Mutant: the time of the deletion is never stored.
RecordDeletionItemsNotStored(items, key, t) == items

\* dt.deletedItems[key] = time.Now(), on the path that returns true.
RecordDeletionItems(items, key, t) ==
    IF RecordDeletionReturns(items, key, t)
    THEN [k \in DOMAIN items \cup {key} |-> IF k = key THEN t ELSE items[k]]
    ELSE items

\* Mutant: the sweep's cutoff is half a minute.
SweptHalfMinute(items, t) ==
    [k \in {j \in DOMAIN items : ~(items[j] < t - 30)} |-> items[k]]

\* cleanup: entries recorded before now - 10 minutes are deleted.
Swept(items, t) ==
    [k \in {j \in DOMAIN items : ~(items[j] < t - RetentionWindow)} |-> items[k]]

MaxCalls == 3

Logged(op, key, ret) == Append(calls, [op |-> op, key |-> key, at |-> now, ret |-> ret])

\* Recorder.RecordResourceDeleted: the counters move when RecordDeletion
\* returned true.
RecordResourceDeleted(namespace, resourceName) ==
    /\ Len(calls) < MaxCalls
    /\ LET key == deletionKey(ResourceTypePipelineRun, namespace, resourceName)
           counted == RecordDeletionReturns(deletedItems, key, now)
       IN  /\ deletedItems' = RecordDeletionItems(deletedItems, key, now)
           /\ recorder' = IF counted
                          THEN [recorder EXCEPT !.resourcesDeleted[resourceName] = @ + 1]
                          ELSE recorder
           /\ calls' = Logged("RecordResourceDeleted", key, counted)
    /\ UNCHANGED <<store, clockVars, lockVars, cfgVars, cleanVars, metrics>>

\* Recorder.RecordUniqueResourceProcessed: the same tracker, asked under the
\* name "processed-" + resourceName.
RecordUniqueResourceProcessed(namespace, resourceName) ==
    /\ Len(calls) < MaxCalls
    /\ LET key == deletionKey(ResourceTypePipelineRun, namespace, <<"processed-">> \o resourceName)
           counted == RecordDeletionReturns(deletedItems, key, now)
       IN  /\ deletedItems' = RecordDeletionItems(deletedItems, key, now)
           /\ recorder' = IF counted
                          THEN [recorder EXCEPT !.resourcesProcessed[resourceName] = @ + 1]
                          ELSE recorder
           /\ calls' = Logged("RecordUniqueResourceProcessed", key, counted)
    /\ UNCHANGED <<store, clockVars, lockVars, cfgVars, cleanVars, metrics>>

\* One run of the background sweep.
cleanup ==
    /\ Len(calls) < MaxCalls
    /\ deletedItems' = Swept(deletedItems, now)
    /\ calls' = Logged("cleanup", <<>>, TRUE)
    /\ UNCHANGED <<recorder, store, clockVars, lockVars, cfgVars, cleanVars, metrics>>

\* The clock moves by a second, by a second less than a minute, or by what
\* is left of the retention window after that.
TrackerSteps == {1, Minute - 1, RetentionWindow - Minute + 1}

InitTracker ==
    /\ PrunerConfigStore = prunerConfigStore(EmptyPrunerConfig, EmptyMap)
    /\ query = NoQuery /\ result = Nil /\ mutation = NoMutation
    /\ NoCluster

NextTracker ==
    \/ \E name \in MeteredNames : RecordResourceDeleted(EventNamespace, name)
    \/ RecordUniqueResourceProcessed(EventNamespace, <<"r1">>)
    \/ cleanup
    \/ \E d \in TrackerSteps : Tick(d)

SpecTracker == InitTracker /\ [][NextTracker]_vars


\* The RecordDeletion calls in the log, and those before call i that asked
\* for the same key and returned true.
IsRecordDeletion(i) == calls[i].op # "cleanup"

CountedBefore(i) ==
    {j \in 1..(i - 1) : IsRecordDeletion(j) /\ calls[j].key = calls[i].key /\ calls[j].ret}

Latest(S) == CHOOSE j \in S : \A k \in S : k <= j

\* C25: RecordDeletion returns true on the first call for a key, false on a
\* call made less than a minute after the last call that returned true, and
\* true on a call made a minute or more after it.
C25_TrueOncePerWindow ==
    \A i \in 1..Len(calls) :
        IsRecordDeletion(i)
            => calls[i].ret = (\/ CountedBefore(i) = {}
                               \/ calls[i].at - calls[Latest(CountedBefore(i))].at >= Minute)

\* Three calls for one key: true, false a second later, true at one minute.
C25_Witness ==
    /\ Len(calls) = 3
    /\ \A i \in 1..3 : IsRecordDeletion(i) /\ calls[i].key = calls[1].key
    /\ calls[1].ret /\ ~calls[2].ret /\ calls[3].ret
    /\ calls[2].at - calls[1].at = 1
    /\ calls[3].at - calls[1].at = Minute

C27_ProcessedCountedOnce ==
    \A n \in MeteredNames : recorder.resourcesProcessed[n] <= 1

SweepStep ==
    /\ Len(calls') = Len(calls) + 1
    /\ calls'[Len(calls')].op = "cleanup"

TrackedKeys ==
    {deletionKey(ResourceTypePipelineRun, EventNamespace, n) : n \in MeteredNames}
        \cup {deletionKey(ResourceTypePipelineRun, EventNamespace, <<"processed-">> \o n) :
                 n \in MeteredNames}

\* C28: a sweep removes the entries recorded more than ten minutes before it
\* and no other, changes no entry it leaves, and RecordDeletion called at
\* the time of the sweep or later returns what it would have returned
\* without the sweep.
C28_SweepRemovesOnlyOld ==
    [][SweepStep
          => /\ DOMAIN deletedItems' =
                   {k \in DOMAIN deletedItems : now - deletedItems[k] <= RetentionWindow}
             /\ \A k \in DOMAIN deletedItems' : deletedItems'[k] = deletedItems[k]
             /\ \A key \in TrackedKeys, later \in 0..(Minute + 1) :
                   RecordDeletionReturns(deletedItems', key, now + later)
                       = RecordDeletionReturns(deletedItems, key, now + later)]_vars

\* A sweep removed an entry recorded more than ten minutes before and left a
\* younger one.
C28_Witness ==
    /\ calls # <<>>
    /\ calls[Len(calls)].op = "cleanup"
    /\ DOMAIN deletedItems # {}
    /\ \E i \in 1..Len(calls) :
          /\ IsRecordDeletion(i) /\ calls[i].ret
          /\ now - calls[i].at > RetentionWindow
          /\ calls[i].key \notin DOMAIN deletedItems


(***************************************************************************)
(* ProcessEvent with the global PrunerMetrics installed or missing.        *)
(***************************************************************************)
InitRecorded ==
    /\ PrunerConfigStore \in
          {LimitPolicy(succ, Nil, Nil, Nil) :
              succ \in {Nil} \cup {Ptr(l) : l \in 0..(MaxRuns - 1)}}
    /\ query = NoQuery /\ result = Nil /\ mutation = NoMutation
    /\ store \in Clusters
    /\ workers = [w \in Workers |-> IdleWorker]
    /\ deleted = [w \in Workers |-> {}]
    /\ reload = IdleReload
    /\ NoTracker
    /\ metrics \in {PrunerMetrics(installed) : installed \in BOOLEAN}
    /\ now = 0
    /\ ticks = 0
    /\ lockers = [p \in Lockers |-> IdleLocker]
    /\ acquired = [p \in Lockers |-> NotAcquired]

SpecRecorded == InitRecorded /\ [][NextCleanup]_vars

\* What a ProcessEvent call can do next: its entry checks, or its next call
\* on the store.
StoreCall(w) ==
    \/ \E name \in DOMAIN store : ProcessEvent(w, name)
    \/ markAsProcessedGet(w) \/ markAsProcessedGetFails(w)
    \/ markAsProcessedPatch(w) \/ markAsProcessedPatchFails(w)
    \/ doResourceCleanupLimit(w)
    \/ doResourceCleanupList(w) \/ doResourceCleanupListFails(w)
    \/ doResourceCleanupDelete(w) \/ doResourceCleanupDeleteFails(w)

GetTaskEnforcedConfigLevel(ps, namespace, name) ==
    getEnforcedConfigLevel(ps, namespace, name, PrunerResourceTypeTaskRun)

GetTaskTTLSecondsAfterFinished(ps, namespace, name) ==
    getResourceFieldData(ps.namespacedConfig, ps.globalConfig, namespace, name,
                         PrunerResourceTypeTaskRun,
                         PrunerFieldTypeTTLSecondsAfterFinished,
                         GetTaskEnforcedConfigLevel(ps, namespace, name))

OverrideSpec(ttl, pipelineRuns) == NamespaceSpec("", ttl, Nil, Nil, Nil, pipelineRuns, <<>>)

InitOverride ==
    /\ PrunerConfigStore \in
          {prunerConfigStore(PrunerConfig(level, root, Nil, Nil, Nil, namespaces), own) :
              level \in {""} \cup EnforcedConfigLevels,
              root \in {Nil, Ptr(300)},
              namespaces \in
                  {EmptyMap}
                  \cup {[k \in {"ns1"} |-> OverrideSpec(ttl, prs)] :
                          ttl \in {Nil, Ptr(60)},
                          prs \in {<<>>, <<ResourceSpec(Selector("p1", Ptr(30), Nil, Nil, ""))>>}},
              own \in {EmptyMap, [k \in {"ns1"} |-> OverrideSpec(Ptr(45), <<>>)]}}
    /\ query = NoQuery /\ result = Nil /\ mutation = NoMutation
    /\ NoCluster

\* One call of a TTL getter.
ResolveTTL(namespace, name, resourceType) ==
    /\ query = NoQuery
    /\ query' = Query(namespace, name, resourceType, PrunerFieldTypeTTLSecondsAfterFinished,
                      getEnforcedConfigLevel(PrunerConfigStore, namespace, name, resourceType))
    /\ result' = IF resourceType = PrunerResourceTypePipelineRun
                 THEN GetPipelineTTLSecondsAfterFinished(PrunerConfigStore, namespace, name)
                 ELSE GetTaskTTLSecondsAfterFinished(PrunerConfigStore, namespace, name)
    /\ UNCHANGED <<PrunerConfigStore, mutation>>
    /\ UNCHANGED <<store, clockVars, trackVars, metrics, lockVars, cleanVars, reload>>

NextOverride ==
    \E namespace \in {"ns1", "ns2"}, resourceType \in PrunerResourceTypes :
        ResolveTTL(namespace, "p1", resourceType)

SpecOverride == InitOverride /\ [][NextOverride]_vars

\* The document sets enforcedConfigLevel namespace, a TTL at the global root
\* and a TTL at the root of its entry for ns1, and nothing else is configured.
OverrideDocument ==
    LET globalConfig == PrunerConfigStore.globalConfig
    IN  /\ globalConfig.EnforcedConfigLevel = EnforcedConfigLevelNamespace
        /\ globalConfig.TTLSecondsAfterFinished # Nil
        /\ DOMAIN globalConfig.Namespaces = {"ns1"}
        /\ globalConfig.Namespaces["ns1"].TTLSecondsAfterFinished # Nil
        /\ globalConfig.Namespaces["ns1"].PipelineRuns = <<>>
        /\ globalConfig.Namespaces["ns1"].TaskRuns = <<>>
        /\ DOMAIN PrunerConfigStore.namespacedConfig = {}

\* C30: with such a document the TTL of a resource in ns1 is the override
\* and the TTL of a resource in another namespace is the global root value.
C30_NamespaceOverride ==
    (OverrideDocument /\ query # NoQuery)
        => result = IF query.namespace = "ns1"
                    THEN PrunerConfigStore.globalConfig.Namespaces["ns1"].TTLSecondsAfterFinished
                    ELSE PrunerConfigStore.globalConfig.TTLSecondsAfterFinished

\* Asked for a TaskRun in ns1, the getter returned the override, 60.
C30_Witness ==
    /\ OverrideDocument
    /\ query.namespace = "ns1"
    /\ query.resourceType = PrunerResourceTypeTaskRun
    /\ result = Ptr(60)


(***************************************************************************)
(* C31, C32, C36: what a TryLock call answers and what it leaves behind.   *)
(***************************************************************************)
\* The lock on the resource object p passed to TryLock: whether it is a
\* well-formed lock of another instance, and the time it carries.
PassedLock(p) == lockers[p].resource.annotations[PrunerLockAnnotation]
HasForeignLock(p) ==
    /\ PrunerLockAnnotation \in DOMAIN lockers[p].resource.annotations
    /\ Len(parseLocationValue(PassedLock(p))) = 2
    /\ SscanfInt(parseLocationValue(PassedLock(p))[2]).ok
    /\ ~isOwnedByMe(InstanceID(p), PassedLock(p))
PassedLockTime(p) == SscanfInt(parseLocationValue(PassedLock(p))[2]).value

\* C31: a TryLock call on a resource that carries another owner's lock
\* returns false without patching exactly when the lock's age is LockTimeout
\* or less; it goes on to take the lock only at a strictly greater age.
C31_ExpiresStrictlyAfterTimeout ==
    [][\A p \in Lockers :
          (lockers[p].pc = "ready" /\ lockers'[p].pc # "ready" /\ HasForeignLock(p))
              => ((/\ lockers'[p].pc = "returned"
                   /\ lockers'[p].ret = "false"
                   /\ store' = store)
                  <=> now - PassedLockTime(p) <= LockTimeout)]_vars

\* C32: a TryLock call that did not acquire the lock has returned false
\* without an error, whatever kept it from acquiring.
C32_NotAcquiredIsNotAnError ==
    \A p \in Lockers :
        (lockers[p].pc = "returned" /\ lockers[p].ret # "true") => lockers[p].ret = "false"

\* C36: after a TryLock call returned false or an error, the stored resource
\* does not carry the lock value that call built.
C36_NoLockLeftBehind ==
    \A p \in Lockers :
        (lockers[p].pc = "returned" /\ lockers[p].ret \in {"false", "error"})
            => ~(/\ PrunerLockAnnotation \in DOMAIN StoredAnnotations
                 /\ StoredAnnotations[PrunerLockAnnotation] = lockers[p].lockValue)


(***************************************************************************)
(* C37: the delete loop under every limit the policy store can hold.       *)
(* LoadGlobalConfig stores what the document says, so a limit below zero   *)
(* can be the active one.                                                  *)
(***************************************************************************)
\* how far below zero the limits of the checked policies go
MaxNegative == 1

InitNegative ==
    /\ PrunerConfigStore \in
          {LimitPolicy(Ptr(l), Nil, Nil, Nil) : l \in (0 - MaxNegative)..(MaxRuns - 1)}
    /\ query = NoQuery /\ result = Nil /\ mutation = NoMutation
    /\ store \in Clusters
    /\ workers = [w \in Workers |-> IdleWorker]
    /\ deleted = [w \in Workers |-> {}]
    /\ NoLockers

NextNegative ==
    \/ \E w \in SingleWorker, name \in DOMAIN store : ProcessEvent(w, name)
    \/ \E w \in SingleWorker : markAsProcessedGet(w)
    \/ \E w \in SingleWorker : markAsProcessedGetFails(w)
    \/ \E w \in SingleWorker : markAsProcessedPatch(w)
    \/ \E w \in SingleWorker : markAsProcessedPatchFails(w)
    \/ \E w \in SingleWorker : doResourceCleanupLimit(w)
    \/ \E w \in SingleWorker : doResourceCleanupList(w)
    \/ \E w \in SingleWorker : doResourceCleanupListFails(w)
    \/ \E w \in SingleWorker : doResourceCleanupDelete(w)
    \/ \E w \in SingleWorker : doResourceCleanupDeleteFails(w)
    \/ \E w \in SingleWorker : doResourceCleanupIndexPanics(w)

SpecNegative == InitNegative /\ [][NextNegative]_vars

\* C37: whatever limit the policy store returns, the number of deletions a
\* pass sets out to make is at most the number of resources it listed, and
\* the loop never reads past the end of the list.
C37_LoopStaysInsideList ==
    \A w \in SingleWorker :
        /\ workers[w].pc # "panic"
        /\ workers[w].pc = "delete"
              => workers[w].resourcesToDelete <= Len(workers[w].completedResources)


(***************************************************************************)
(* C35: markAsProcessed next to the lockers of the same resource.          *)
(***************************************************************************)
\* One completed, unprocessed resource without a limit configured; two
\* lockers and one ProcessEvent call work on it within the same second.
InitMark ==
    /\ PrunerConfigStore = prunerConfigStore(EmptyPrunerConfig, EmptyMap)
    /\ query = NoQuery /\ result = Nil /\ mutation = NoMutation
    /\ store = [k \in {LockTarget} |-> Resource(LockTarget, 0, "Succeeded", "p1", NoAnnotations)]
    /\ workers = [w \in Workers |-> IdleWorker]
    /\ deleted = [w \in Workers |-> {}]
    /\ NoLockers

NextMark ==
    \/ \E p \in Lockers : GetResource(p)
    \/ \E p \in Lockers : TryLockRefused(p)
    \/ \E p \in Lockers : TryLockPatch(p)
    \/ \E p \in Lockers : TryLockPatchFails(p)
    \/ \E p \in Lockers : TryLockVerify(p)
    \/ \E p \in Lockers : TryLockVerifyFails(p)
    \/ \E p \in Lockers : ReleaseLock(p)
    \/ \E p \in Lockers : ReleaseLockPatchFails(p)
    \/ \E w \in SingleWorker : ProcessEvent(w, LockTarget)
    \/ \E w \in SingleWorker : markAsProcessedGet(w)
    \/ \E w \in SingleWorker : markAsProcessedGetFails(w)
    \/ \E w \in SingleWorker : markAsProcessedPatch(w)
    \/ \E w \in SingleWorker : markAsProcessedPatchFails(w)
    \/ \E w \in SingleWorker : doResourceCleanupLimit(w)

SpecMark == InitMark /\ [][NextMark]_vars

OtherAnnotations(annotations) ==
    [k \in DOMAIN annotations \ {AnnotationHistoryLimitCheckProcessed} |-> annotations[k]]

\* C35: the patch of markAsProcessed leaves every annotation other than the
\* processed marker as the store holds it at the time of the patch, whatever
\* another worker did to it since markAsProcessed read the resource.
C35_MarkerPatchTouchesOnlyMarker ==
    [][\A w \in SingleWorker :
          (workers[w].pc = "markPatch" /\ workers'[w].pc # "markPatch")
              => OtherAnnotations(store'[LockTarget].annotations)
                     = OtherAnnotations(store[LockTarget].annotations)]_vars


(***************************************************************************)
(* C33, C34: a pass that is cut short and the retry that follows it.       *)
(* Worker 1 makes the first ProcessEvent call, on a store that may fail    *)
(* and with a context the caller may cancel; worker 2 is the reconciler's  *)
(* retry for the same resource, read again from a store that works.        *)
(***************************************************************************)
\* The caller cancels the context of a pass that is in its delete loop.
\* ProcessEvent and doResourceCleanup never look at ctx.Done() or ctx.Err():
\* the context is only handed on to the store calls, so the pass goes on to
\* its next Delete call as before.
Cancel(w) ==
    /\ workers[w].pc = "delete"
    /\ ~workers[w].cancelled
    /\ workers' = [workers EXCEPT ![w].cancelled = TRUE]
    /\ UNCHANGED <<store, deleted, clockVars, trackVars, metrics, lockVars, cfgVars>>

\* Succeeded runs of one pipeline created one after the other, none
\* processed yet, and a successful limit of 0 to MaxRuns - 1.
InitRetry ==
    /\ PrunerConfigStore \in
          {LimitPolicy(Ptr(l), Nil, Nil, Nil) : l \in 0..(MaxRuns - 1)}
    /\ query = NoQuery /\ result = Nil /\ mutation = NoMutation
    /\ store = Cluster([i \in Runs |-> i - 1], [i \in Runs |-> "Succeeded"],
                       [i \in Runs |-> RacePipeline], {})
    /\ workers = [w \in Workers |-> IdleWorker]
    /\ deleted = [w \in Workers |-> {}]
    /\ NoLockers

\* The first call returned an error and its resource is still stored.
Aborted(w) ==
    /\ workers[w].pc = "done"
    /\ workers[w].ret = "error"
    /\ workers[w].resource.name \in DOMAIN store

\* The reconciler calls ProcessEvent again with the resource as stored now.
RetryProcessEvent == Aborted(1) /\ ProcessEvent(2, workers[1].resource.name)

NextRetry ==
    \/ \E name \in DOMAIN store : ProcessEvent(1, name)
    \/ markAsProcessedGet(1)
    \/ markAsProcessedGetFails(1)
    \/ markAsProcessedPatch(1)
    \/ markAsProcessedPatchFails(1)
    \/ doResourceCleanupLimit(1)
    \/ doResourceCleanupList(1)
    \/ doResourceCleanupListFails(1)
    \/ doResourceCleanupDelete(1)
    \/ doResourceCleanupDeleteFails(1)
    \/ Cancel(1)
    \/ RetryProcessEvent
    \/ markAsProcessedGet(2)
    \/ markAsProcessedPatch(2)
    \/ doResourceCleanupLimit(2)
    \/ doResourceCleanupList(2)
    \/ doResourceCleanupDelete(2)

SpecRetry == InitRetry /\ [][NextRetry]_vars

\* The retry and each step of it is taken when it can be.
RetryFairness ==
    /\ WF_vars(RetryProcessEvent)
    /\ WF_vars(markAsProcessedGet(2))
    /\ WF_vars(markAsProcessedPatch(2))
    /\ WF_vars(doResourceCleanupLimit(2))
    /\ WF_vars(doResourceCleanupList(2))
    /\ WF_vars(doResourceCleanupDelete(2))

SpecRetryLive == SpecRetry /\ RetryFairness

\* The names of what the first pass set out to delete and of what the two
\* calls have deleted; a step of a pass that calls Delete.
OriginalExcess ==
    {workers[1].completedResources[j].name : j \in 1..workers[1].resourcesToDelete}
DeletedNames == {d.name : d \in deleted[1] \cup deleted[2]}
IssuesDelete(w) ==
    /\ workers[w].pc = "delete"
    /\ workers'[w] # workers[w]
    /\ workers'[w].cancelled = workers[w].cancelled

\* C33: a cancelled pass makes no further Delete call; what the pass and its
\* retry delete lies within the excess the first pass computed, and when the
\* retry has returned the two have deleted exactly that excess.
C33_CancelThenRetryDeletesExcess ==
    [][/\ workers[1].cancelled => ~IssuesDelete(1)
       /\ workers'[1].cancelled => DeletedNames' \subseteq OriginalExcess'
       /\ (workers'[1].cancelled /\ workers'[2].pc = "done")
              => DeletedNames' = OriginalExcess']_vars

\* C34: after a pass aborted on a store error, with its resource still
\* stored and the reconciler retrying on a store that works, the grouping
\* comes to hold at most the limit of completed resources of the status.
C34_RetryCompletesEviction ==
    Aborted(1) ~> (Cardinality(CompletedResources(store, RacePipeline, "successful"))
                       <= RaceLimit[1])


(***************************************************************************)
(* C38: the lock value of a locker with any instance ID, written and read  *)
(* back by the same locker.  NewResourceLocker takes any string.           *)
(***************************************************************************)
MaxIDLen == 2
IDChars == {"a", ":", "7"}
InstanceIDs == UNION {[1..n -> IDChars] : n \in 1..MaxIDLen}

\* query holds the locker (its instance ID), result the lock value it wrote
\* and when, mutation what it found on reading the value back.
InitOwner ==
    /\ PrunerConfigStore = prunerConfigStore(EmptyPrunerConfig, EmptyMap)
    /\ query \in {[instanceID |-> id] : id \in InstanceIDs}
    /\ result = Nil
    /\ mutation = NoMutation
    /\ NoCluster

\* TryLock builds its lock value.
WriteLockValue ==
    /\ result = Nil
    /\ result' = [lockValue |-> LockValue(query.instanceID, now), at |-> now]
    /\ UNCHANGED <<PrunerConfigStore, query, mutation>>
    /\ UNCHANGED <<store, clockVars, trackVars, metrics, lockVars, cleanVars, reload>>

\* The same locker looks at the value: parseLocationValue, isOwnedByMe and
\* isLockValid as TryLock and ReleaseLock call them.
ReadLockValue ==
    /\ result # Nil
    /\ mutation' = [parts |-> parseLocationValue(result.lockValue),
                    owned |-> isOwnedByMe(query.instanceID, result.lockValue),
                    valid |-> isLockValid(result.lockValue),
                    age |-> now - result.at]
    /\ UNCHANGED <<PrunerConfigStore, query, result>>
    /\ UNCHANGED <<store, clockVars, trackVars, metrics, lockVars, cleanVars, reload>>

NextOwner ==
    \/ WriteLockValue
    \/ ReadLockValue
    \/ \E d \in TickSteps : Tick(d)

SpecOwner == InitOwner /\ [][NextOwner]_vars

\* C38: whatever the instance ID, the locker that wrote a lock value reads
\* back its own ID and the time it wrote, takes the lock for its own, and
\* takes it for valid as long as its age is below LockTimeout.
C38_LockValueRoundTrip ==
    mutation # NoMutation
        => /\ mutation.parts = <<query.instanceID, FormatInt(result.at)>>
           /\ SscanfInt(mutation.parts[Len(mutation.parts)]) = [ok |-> TRUE, value |-> result.at]
           /\ mutation.owned
           /\ mutation.valid <=> mutation.age < LockTimeout


(***************************************************************************)
(* C39: resolution on the policy documents the webhook admits.  A level is *)
(* a string in the document; "cluster" stands for any string other than    *)
(* the three levels.                                                       *)
(***************************************************************************)
UnknownLevel == "cluster"
DocumentLevels == {""} \cup EnforcedConfigLevels \cup {UnknownLevel}

\* Global policies with a TTL at the root, a level at the root, at the root
\* of the entry of ns1 and on its selector for p1: those the webhook admits.
AcceptedConfigs ==
    {cfg \in {PrunerConfig(level, root, Nil, Nil, Nil,
                           [k \in {"ns1"} |->
                               NamespaceSpec(nsLevel, nsTTL, Nil, Nil, Nil,
                                             <<ResourceSpec(Selector("p1", Nil, Nil, Nil, selLevel))>>,
                                             <<>>)]) :
                 level \in DocumentLevels, root \in {Nil, Ptr(300)},
                 nsLevel \in DocumentLevels, nsTTL \in {Nil, Ptr(60)},
                 selLevel \in DocumentLevels} :
        validatePrunerConfigFields(cfg)}

InitAccepted ==
    /\ PrunerConfigStore \in {prunerConfigStore(cfg, EmptyMap) : cfg \in AcceptedConfigs}
    /\ query = NoQuery /\ result = Nil /\ mutation = NoMutation
    /\ NoCluster

NextAccepted ==
    \E namespace \in {"ns1", "ns2"}, name \in {"p1", "p2"}, resourceType \in PrunerResourceTypes :
        ResolveTTL(namespace, name, resourceType)

SpecAccepted == InitAccepted /\ [][NextAccepted]_vars

\* C39: on an admitted policy whose global root sets the TTL, the TTL
\* resolves to a set value for every namespace and resource name.
C39_GlobalRootIsTheFloor ==
    (/\ query # NoQuery
     /\ validatePrunerConfigFields(PrunerConfigStore.globalConfig)
     /\ FieldOf(PrunerConfigStore.globalConfig, PrunerFieldTypeTTLSecondsAfterFinished) # Nil)
        => result # Nil


(***************************************************************************)
(* C40: a reload from a ConfigMap without the global-config key.           *)
(***************************************************************************)
\* The call that returned last was given a ConfigMap with no data, without
\* the key or with an empty string under it.
ReloadedFromAbsent ==
    /\ reload.pc = "idle"
    /\ reload.ret # "none"
    /\ reload.doc.kind = "absent"

\* C40: a LoadGlobalConfig call on a ConfigMap whose global-config key is
\* missing or empty returns nil and leaves the empty policy active: every
\* field of every resource resolves to unset and the level to resource, and
\* a TTL getter called since has returned unset.
C40_AbsentKeyLoadsEmptyPolicy ==
    ReloadedFromAbsent
        => /\ reload.ret = "nil"
           /\ PrunerConfigStore.globalConfig = EmptyPrunerConfig
           /\ \A namespace \in {"ns1", "ns2"}, name \in {"p1", "p2"},
                 resourceType \in PrunerResourceTypes :
                 /\ getEnforcedConfigLevel(PrunerConfigStore, namespace, name, resourceType)
                        = EnforcedConfigLevelResource
                 /\ \A fieldType \in PrunerFieldTypes :
                       getResourceFieldData(
                           PrunerConfigStore.namespacedConfig, PrunerConfigStore.globalConfig,
                           namespace, name, resourceType, fieldType,
                           getEnforcedConfigLevel(PrunerConfigStore, namespace, name, resourceType))
                           = Nil
           /\ query.fieldType = PrunerFieldTypeTTLSecondsAfterFinished => result = Nil

\* A policy with a TTL for ns1 was active, the reload without the key
\* returned nil, and the TTL getter called after it returned unset.
C40_Witness ==
    /\ ReloadedFromAbsent
    /\ reload.ret = "nil"
    /\ reload.previous # EmptyPrunerConfig
    /\ FieldOf(reload.previous, PrunerFieldTypeTTLSecondsAfterFinished) = Ptr(60)
    /\ query # NoQuery
    /\ query.fieldType = PrunerFieldTypeTTLSecondsAfterFinished
    /\ result = Nil

=============================================================================
